---------------------------- MODULE Spec2Model ----------------------------
(***************************************************************************)
(* A model of the Dulvit neural-network library: the GV numeric           *)
(* containers (src/unnamed/part_002, gv.js) and the NN.Model training      *)
(* loop, persistence and evaluation (src/nn.js, second definition of NN,   *)
(* lines 365-1523).                                                        *)
(*                                                                         *)
(* Numbers.  A JavaScript number is modelled as an exact extended          *)
(* rational <<n, d>>: d > 0 and gcd(n, d) = 1 for a finite value n/d,      *)
(* <<1, 0>> for +Infinity, <<-1, 0>> for -Infinity and <<0, 0>> for NaN.   *)
(* The arithmetic follows IEEE-754 for the special values (Inf - Inf,      *)
(* 0 * Inf and 0 / 0 are NaN, every comparison with NaN is false);         *)
(* rounding and negative zero are not modelled.                            *)
(*                                                                         *)
(* Objects.  A Matrix is a sequence of rows, each a sequence of numbers.   *)
(* The weight matrices of the layers live in a heap (ref -> Matrix) and a  *)
(* layer holds a reference, because the code shares and mutates them in    *)
(* place.                                                                  *)
(***************************************************************************)
EXTENDS Integers, Sequences, FiniteSets, TLC

----------------------------------------------------------------------------
(* JavaScript numbers *)

NaN  == <<0, 0>>
PInf == <<1, 0>>
NInf == <<-1, 0>>

Abs(n) == IF n < 0 THEN -n ELSE n
Sgn(n) == IF n < 0 THEN -1 ELSE IF n > 0 THEN 1 ELSE 0

RECURSIVE GCD(_, _)
GCD(a, b) == IF b = 0 THEN a ELSE GCD(b, a % b)

\* the finite number n/d, d # 0, in lowest terms
Frac(n, d) ==
    LET g == GCD(Abs(n), Abs(d))
    IN  <<(Sgn(d) * n) \div g, Abs(d) \div g>>

Num(n) == <<n, 1>>

IsFinite(a) == a[2] # 0

\* a variant of isNaN that finds no NaN
isNaNNever(a) == FALSE

\* JS isNaN(x)
isNaN(a) == a = NaN

\* JS a + b
NAdd(a, b) ==
    IF a = NaN \/ b = NaN THEN NaN
    ELSE IF IsFinite(a) /\ IsFinite(b) THEN Frac(a[1] * b[2] + b[1] * a[2], a[2] * b[2])
    ELSE IF ~IsFinite(a) /\ ~IsFinite(b) THEN (IF a = b THEN a ELSE NaN)
    ELSE IF IsFinite(a) THEN b ELSE a

NNeg(a) == <<-a[1], a[2]>>

\* JS a - b
NSub(a, b) == NAdd(a, NNeg(b))

\* JS a * b
NMul(a, b) ==
    IF a = NaN \/ b = NaN THEN NaN
    ELSE IF IsFinite(a) /\ IsFinite(b) THEN Frac(a[1] * b[1], a[2] * b[2])
    ELSE IF a[1] = 0 \/ b[1] = 0 THEN NaN
    ELSE <<Sgn(a[1]) * Sgn(b[1]), 0>>

\* JS a / b
NDiv(a, b) ==
    IF a = NaN \/ b = NaN THEN NaN
    ELSE IF IsFinite(a) /\ IsFinite(b)
         THEN IF b[1] # 0 THEN Frac(a[1] * b[2], a[2] * b[1])
              ELSE IF a[1] = 0 THEN NaN ELSE <<Sgn(a[1]), 0>>
    ELSE IF ~IsFinite(a) /\ ~IsFinite(b) THEN NaN
    ELSE IF IsFinite(a) THEN Num(0)
    ELSE <<a[1] * (IF b[1] < 0 THEN -1 ELSE 1), 0>>

\* JS a < b
NLt(a, b) ==
    IF a = NaN \/ b = NaN THEN FALSE
    ELSE IF IsFinite(a) /\ IsFinite(b) THEN a[1] * b[2] < b[1] * a[2]
    ELSE IF a = b THEN FALSE
    ELSE a = NInf \/ b = PInf

\* JS a >= b and a > b
NGe(a, b) == a # NaN /\ b # NaN /\ ~NLt(a, b)
NGt(a, b) == NLt(b, a)

\* Math.sqrt(a) where the root is a rational number (every use below takes
\* the root of the square of one number); NaN for NaN and below zero
Sqrt(a) ==
    IF a = NaN \/ a = NInf \/ a[1] < 0 THEN NaN
    ELSE IF a = PInf THEN PInf
    ELSE << CHOOSE r \in 0..a[1] : r * r = a[1], CHOOSE r \in 1..a[2] : r * r = a[2] >>

\* Math.ceil(a / b) for positive integers
CeilDiv(a, b) == (a + b - 1) \div b

Min(a, b) == IF a < b THEN a ELSE b

----------------------------------------------------------------------------
(* GV containers: a Matrix is its rows *)

Rows(m) == Len(m)
Cols(m) == IF Len(m) = 0 THEN 0 ELSE Len(m[1])

\* Array.prototype.slice(start, end) on 0-based positions
Slice(s, start, end) ==
    LET e == Min(end, Len(s))
    IN  IF start >= e THEN <<>> ELSE [k \in 1..(e - start) |-> s[start + k]] \o <<>>

\* the getter Matrix.t
Transpose(m) ==
    [i \in 1..Cols(m) |-> [j \in 1..Rows(m) |-> m[j][i]] \o <<>>] \o <<>>

RECURSIVE SumSeq(_)
SumSeq(s) == IF s = <<>> THEN Num(0) ELSE NAdd(SumSeq(SubSeq(s, 1, Len(s) - 1)), s[Len(s)])

\* GV.sum(mv) with axis = null: rows from the first, left to right
RECURSIVE sum(_)
sum(m) == IF m = <<>> THEN Num(0) ELSE NAdd(sum(SubSeq(m, 1, Len(m) - 1)), SumSeq(m[Len(m)]))

\* GV.sum(mv, 1): the Vector of the row sums
sumRows(m) == [i \in 1..Len(m) |-> SumSeq(m[i])] \o <<>>

\* GV.pow(mv, 2)
pow2(m) ==
    [i \in 1..Len(m) |-> [j \in 1..Len(m[i]) |-> NMul(m[i][j], m[i][j])] \o <<>>] \o <<>>

\* GV.scale(mv, s)
scale(m, s) ==
    [i \in 1..Len(m) |-> [j \in 1..Len(m[i]) |-> NMul(m[i][j], s)] \o <<>>] \o <<>>

\* GV.ones(r, c)
ones(r, c) == [i \in 1..r |-> [j \in 1..c |-> Num(1)] \o <<>>] \o <<>>

\* GV.zeros(r, c)
zeros(r, c) == [i \in 1..r |-> [j \in 1..c |-> Num(0)] \o <<>>] \o <<>>

\* GV._matMult(a, b): an empty Matrix when an operand is empty or the inner
\* dimensions differ, rows of no columns when b has no columns
matMult(a, b) ==
    IF Len(a) = 0 \/ Len(b) = 0 THEN <<>>
    ELSE IF Len(a[1]) # Len(b) THEN <<>>
    ELSE IF Len(b[1]) = 0 THEN [i \in 1..Len(a) |-> <<>>] \o <<>>
    ELSE [i \in 1..Len(a) |->
            [j \in 1..Len(b[1]) |->
                SumSeq([k \in 1..Len(b) |-> NMul(a[i][k], b[k][j])] \o <<>>)]
            \o <<>>] \o <<>>

\* GV.mult(a, b) for two Matrix arguments
mult(a, b) == matMult(a, b)

\* GV.subtractMatrix(m1, m2): the value of the difference; the first operand
\* itself when the shapes are incompatible.  With inplace = true the caller
\* stores this value into the object m1 refers to.
subtractMatrix(m1, m2) ==
    IF Len(m1) # Len(m2) \/ (Len(m1) > 0 /\ Len(m1[1]) # Len(m2[1])) THEN m1
    ELSE [i \in 1..Len(m1) |->
            [j \in 1..Len(m1[1]) |-> NSub(m1[i][j], m2[i][j])] \o <<>>] \o <<>>

\* GV.multiplyMatrix(m1, m2): element-wise over the shape of m1; an entry m2
\* lacks reads as undefined and gives NaN
multiplyMatrix(m1, m2) ==
    [i \in 1..Len(m1) |->
        [j \in 1..Cols(m1) |->
            IF j <= Len(m2[i]) THEN NMul(m1[i][j], m2[i][j]) ELSE NaN] \o <<>>] \o <<>>

\* row.push(1) on every row: the bias column
PushBias(m) == [i \in 1..Len(m) |-> Append(m[i], Num(1))] \o <<>>

\* row.slice(0, -1) on every row
DropLast(m) == [i \in 1..Len(m) |-> SubSeq(m[i], 1, Len(m[i]) - 1)] \o <<>>

\* the stripping loop of _computeLayers and predict: a row of one element
\* keeps it
StripBias(m) ==
    [i \in 1..Len(m) |->
        IF Len(m[i]) > 1 THEN SubSeq(m[i], 1, Len(m[i]) - 1) ELSE m[i]] \o <<>>

\* the minimum-overlap reconciliation of two matrices of different shapes
\* (first the rows, then the columns); <<a, b>> unchanged when they agree
Reconcile(a, b) ==
    IF Rows(a) = Rows(b) /\ Cols(a) = Cols(b) THEN <<a, b>>
    ELSE LET minRows == Min(Rows(a), Rows(b))
             a1 == IF Rows(a) # Rows(b) THEN SubSeq(a, 1, minRows) ELSE a
             b1 == IF Rows(a) # Rows(b) THEN SubSeq(b, 1, minRows) ELSE b
             minCols == Min(Cols(a1), Cols(b1))
         IN  IF Cols(a1) # Cols(b1)
             THEN << [i \in 1..Len(a1) |-> SubSeq(a1[i], 1, minCols)] \o <<>>,
                     [i \in 1..Len(b1) |-> SubSeq(b1[i], 1, minCols)] \o <<>> >>
             ELSE <<a1, b1>>

----------------------------------------------------------------------------
(* Activations and loss functions *)

\* Math.max(0, val): NaN for NaN
Max0(v) == IF v = NaN THEN NaN ELSE IF NGt(v, Num(0)) THEN v ELSE Num(0)

\* val > 0 ? 1 : 0
Positive(v) == IF NGt(v, Num(0)) THEN Num(1) ELSE Num(0)

\* NN.ReLU.f: Math.max(0, val) and the indicator val > 0, element-wise
ReLU(z) ==
    << [i \in 1..Len(z) |-> [j \in 1..Len(z[i]) |-> Max0(z[i][j])] \o <<>>] \o <<>>,
       [i \in 1..Len(z) |-> [j \in 1..Len(z[i]) |-> Positive(z[i][j])] \o <<>>] \o <<>> >>

\* NN.SquareLoss.f(o, y): <<l, delta>>, l the 1x1 Matrix holding the Vector
\* of the halved row sums of delta^2
SquareLossF(o, y) ==
    LET delta == subtractMatrix(o, y)
        f == [i \in 1..Len(delta) |-> NMul(SumSeq(pow2(delta)[i]), Frac(1, 2))] \o <<>>
    IN  << << <<f>> >>, delta >>

\* NN.SquareLoss.getLoss(y, yPred)
HalfMeanSquare(y, yPred) ==
    NDiv(NMul(Frac(1, 2), sum(pow2(subtractMatrix(y, yPred)))), Num(Len(y)))

Reconciled(r) == HalfMeanSquare(r[1], r[2])

SquareLossGetLoss(y, yPred) == Reconciled(Reconcile(y, yPred))

----------------------------------------------------------------------------
(* Layers.  A layer is [size, activation, W]: W a reference into the heap, *)
(* Null while the weights are not materialised.                            *)

Null == 0

\* NN.LayerProto.getWeights: the reference itself, no copy
getWeights(layer) == layer.W

\* NN.LayerProto.setWeights: the layer now holds the reference it is given
setWeights(layer, weights) == [layer EXCEPT !.W = weights]

\* NN.LayerProto.updateWeights(dW, lr) as the new value of the object this.W:
\* nothing for a missing or zero-row dW, else subtractMatrix in place
updateWeightsUnscaled(W, dW, rate) ==
    IF Len(dW) = 0 THEN W ELSE subtractMatrix(W, dW)
updateWeights(W, dW, rate) ==
    IF Len(dW) = 0 THEN W ELSE subtractMatrix(W, scale(dW, rate))

\* NN.Dense.f: a product z of no columns becomes a column of zeros
NonEmpty(z) == IF Len(z) > 0 /\ Len(z[1]) = 0 THEN zeros(Len(z), 1) ELSE z

\* NN.Dense.f: the activation of z, or z with a derivative of ones
Activate(layer, z) ==
    IF layer.activation = "relu" THEN ReLU(z)
    ELSE <<z, ones(Rows(z), layer.size)>>

\* NN.Dense.f(x) for materialised weights W: <<output, local derivative>>
DenseF(W, layer, x) == Activate(layer, NonEmpty(mult(x, W)))

----------------------------------------------------------------------------
(* NN.Model: forward pass, backward pass, loss *)

\* the loop over the layers in _computeLayers and predict: the bias-augmented
\* outputs ls (ls[1] the augmented input) and the local derivatives ds of
\* the first k layers
Collect(p, r) == [ls |-> Append(p.ls, PushBias(r[1])), ds |-> Append(p.ds, r[2])]

LayerStep(hp, lys, k, p) == Collect(p, DenseF(hp[lys[k].W], lys[k], p.ls[k]))

RECURSIVE Forward(_, _, _, _)
Forward(hp, lys, x0, k) ==
    IF k = 0 THEN [ls |-> <<x0>>, ds |-> <<>>]
    ELSE LayerStep(hp, lys, k, Forward(hp, lys, x0, k - 1))

\* Model._computeLayers(x, y): [layers, derivatives]; the last layer output
\* is stored stripped of its bias column, the loss row l follows it
WithLoss(ls, ds, last, ld) ==
    [layers      |-> Append([ls EXCEPT ![Len(ls)] = last], PushBias(ld[1])),
     derivatives |-> Append(ds, ld[2])]

LossF(rc) == SquareLossF(rc[1], rc[2])

Stripped(ls, ds, last, y) == WithLoss(ls, ds, last, LossF(Reconcile(last, y)))

AfterLayers(p, y) == Stripped(p.ls, p.ds, StripBias(p.ls[Len(p.ls)]), y)

computeLayers(hp, lys, x, y) == AfterLayers(Forward(hp, lys, PushBias(x), Len(lys)), y)

\* Model._computeLoss(y, yPred) = lossFunction.getLoss(y, yPred.t)
computeLoss(y, yPred) == SquareLossGetLoss(y, Transpose(yPred))

\* Model._updateWeights: the heap after the backward pass.  k counts the
\* layers already updated (from the last one), dW is the running gradient.
\* The gradient handed to the previous layer reads W after its update,
\* W being the object updateWeights has just changed in place.
\* the weight gradient of a layer: input^T * layerGrad scaled by 1/batchSize
weightGrad(inputMatrix, layerGrad, batchSize) ==
    scale(mult(Transpose(inputMatrix), layerGrad), NDiv(Num(1), Num(batchSize)))

\* the heap after layer.updateWeights(weightGrad, lr) on the object W
Updated(hp, W, inputMatrix, layerGrad, rate, batchSize) ==
    [hp EXCEPT ![W] = updateWeights(hp[W], weightGrad(inputMatrix, layerGrad, batchSize),
                                    rate)]

\* the gradient for the previous layer: layerGrad * W.t without the bias column
NextGrad(hp1, W, layerGrad) == DropLast(mult(layerGrad, Transpose(hp1[W])))

\* the layer visited in iteration k of the loop: revL[k], counted from 1 in
\* this.layers; its input and its derivative sit at the same position
VisitedForward(lys, k) == k + 1
Visited(lys, k) == Len(lys) - k

RECURSIVE Backward(_, _, _, _, _, _, _, _)

Propagate(hp1, lys, cl, cd, rate, batchSize, k, W, layerGrad) ==
    Backward(hp1, lys, cl, cd, rate, batchSize, k + 1, NextGrad(hp1, W, layerGrad))

LayerUpdate(hp, lys, cl, cd, rate, batchSize, k, W, layerGrad) ==
    Propagate(Updated(hp, W, cl[Visited(lys, k)], layerGrad, rate, batchSize),
              lys, cl, cd, rate, batchSize, k, W, layerGrad)

Backward(hp, lys, cl, cd, rate, batchSize, k, dW) ==
    IF k = Len(lys) THEN hp
    ELSE LayerUpdate(hp, lys, cl, cd, rate, batchSize, k,
                     getWeights(lys[Visited(lys, k)]),
                     multiplyMatrix(dW, cd[Visited(lys, k)]))

\* the calls one batch makes, in their order: layer.f of every layer in
\* _computeLayers, then lossFunction.f, then layer.updateWeights in the loop
\* of _updateWeights
RECURSIVE ForwardPasses(_, _)
ForwardPasses(lys, k) ==
    IF k = 0 THEN <<>> ELSE Append(ForwardPasses(lys, k - 1), <<"f", k>>)

RECURSIVE BackwardPasses(_, _)
BackwardPasses(lys, k) ==
    IF k = Len(lys) THEN <<>>
    ELSE << <<"updateWeights", Visited(lys, k)>> >> \o BackwardPasses(lys, k + 1)

BatchPasses(lys) ==
    ForwardPasses(lys, Len(lys)) \o << <<"loss", 0>> >> \o BackwardPasses(lys, 0)

\* a variant of modelUpdateWeights that shrinks the step by weightDecay
modelUpdateWeightsDecayed(hp, lys, rate, cl, cd, batchSize, momentum, weightDecay, momentumBuffers) ==
    Backward(hp, lys, cl, cd, NMul(rate, NSub(Num(1), weightDecay)), batchSize, 0,
             cd[Len(cd)])

\* the parameters momentum, weightDecay and momentumBuffers are not read
modelUpdateWeights(hp, lys, rate, cl, cd, batchSize, momentum, weightDecay, momentumBuffers) ==
    Backward(hp, lys, cl, cd, rate, batchSize, 0, cd[Len(cd)])

\* Model.predict(x): lossFunction.ff of the transposed, stripped output; ff
\* is the identity for SquareLoss
LastOutput(p) == p.ls[Len(p.ls)]

predictUnstripped(hp, lys, x) ==
    Transpose(LastOutput(Forward(hp, lys, PushBias(x), Len(lys))))

predict(hp, lys, x) ==
    Transpose(StripBias(LastOutput(Forward(hp, lys, PushBias(x), Len(lys)))))

\* GV.argmin(new Vector(v)): 0-based index of the first smallest value under
\* the JS comparison <, 0 for an empty Vector
RECURSIVE ArgminFrom(_, _, _)
ArgminFrom(v, k, best) ==
    IF k > Len(v) THEN best
    ELSE ArgminFrom(v, k + 1, IF NLt(v[k], v[best]) THEN k ELSE best)

argmin(v) == IF Len(v) = 0 THEN 0 ELSE ArgminFrom(v, 1, 1) - 1

----------------------------------------------------------------------------
(* GV.randomPermutation and GV.fromIndices.  Vector objects live in a     *)
(* store (reference -> values), so that a copy and an alias differ.        *)

\* VectorPrototype.clone: a new Vector object over a copy of the values
clone(vs, v) == [vectors |-> Append(vs, vs[v]), ref |-> Len(vs) + 1]

\* a variant of Swap that loses the value at position a
SwapLost(values, a, b) == [values EXCEPT ![a + 1] = values[b + 1]]

\* one Fisher-Yates step: swap the 0-based positions a and b of values
Swap(values, a, b) ==
    [values EXCEPT ![a + 1] = values[b + 1], ![b + 1] = values[a + 1]]

\* the loop of GV.randomPermutation on the values of the clone: i runs from
\* length-1 down to 1, draws[i] is Math.floor(Math.random() * (i + 1))
RECURSIVE Shuffle(_, _, _)
Shuffle(values, draws, i) ==
    IF i <= 0 THEN values
    ELSE Shuffle(Swap(values, i, draws[i]), draws, i - 1)

\* GV.randomPermutation(v) for a Vector v: the store after the call and the
\* reference returned
ShuffleResult(c, draws) ==
    [vectors |-> [c.vectors EXCEPT ![c.ref] = Shuffle(@, draws, Len(@) - 1)],
     ref     |-> c.ref]

randomPermutation(vs, v, draws) == ShuffleResult(clone(vs, v), draws)

\* the draws Math.random can produce for a Vector of n elements: draws[i] is
\* an integer of 0..i, for i = 1..n-1
Draws(n) == { d \in [1..(n - 1) -> 0..(n - 1)] : \A k \in 1..(n - 1) : d[k] <= k }

\* GV.fromIndices(mv, indices) with axis = null: position k of the result is
\* row mv[k] for k < indices.length, whatever value indices holds there
fromIndices(mv, indices) == [k \in 1..Len(indices) |-> mv[k]] \o <<>>

\* the row arrays a Matrix is built over: of = k for the array that is row k
\* of the caller's Matrix, of = 0 for an array of the callee's own.
\* new Matrix(rows) and fromIndices keep the arrays they are given.
SharedRows(m) == [k \in 1..Len(m) |-> [of |-> k, row |-> m[k]]] \o <<>>

\* row.slice(): an array of its own with the same values
RowSlice(r) == [of |-> 0, row |-> r.row]

\* rows.slice(a, b).map(row => row.slice())
SlicedRowsShared(t, a, b) == [k \in 1..(b - a) |-> t[a + k]] \o <<>>
SlicedRows(t, a, b) == [k \in 1..(b - a) |-> RowSlice(t[a + k])] \o <<>>

\* predict: layerIn.push(x.rows[i].slice()) for every row
PredictRows(t) == [k \in 1..Len(t) |-> RowSlice(t[k])] \o <<>>

\* the caller's Matrix m after row.push(1) on every array of t
BiasPushed(m, t) ==
    [k \in 1..Len(m) |->
        IF \E p \in 1..Len(t) : t[p].of = k THEN Append(m[k], Num(1)) ELSE m[k]] \o <<>>

\* Array.from(Array(n).keys())
Keys(n) == [k \in 1..n |-> k - 1] \o <<>>

----------------------------------------------------------------------------
(* Bounds of the model *)

MaxTrain    == 3   \* most rows of xTrain
MaxEpochs   == 4   \* largest maxEpochs
MaxBatch    == 2   \* largest batchSize
MaxPatience == 2   \* largest earlyStoppingPatience
MaxVec      == 3   \* longest Vector given to randomPermutation
MaxLayers   == 2   \* most layers of a saved model

----------------------------------------------------------------------------
(* State *)

VARIABLES
    \* the Model object
    inputDim, layers, heap, lossFunction,
    \* the arguments of the train call in flight
    xTrain, yTrain, xValidation, yValidation, opt,
    \* the locals of train and of trainEpoch / startTraining
    pc, i, j, lr, loss, valLoss, batchLoss, trainLosses, validationLosses,
    weightHistory, bestValLoss, patienceCounter, indices, state,
    \* the promise train returned and how the run ended
    promise, outcome,
    \* history: the Vector randomPermutation returned this epoch, the weight
    \* values at each validation evaluation, the rows of the batches of this
    \* epoch, the callback calls made, the number of _updateWeights calls,
    \* the calls made on fs with the way each ended
    shuffled, evalWeights, epochBatches, calls, updates, fsLog, passes,
    \* a randomPermutation call: the store of Vector objects, the argument,
    \* its values before the call, the Vector returned
    vectors, permIn, permBefore, permOut,
    \* a save / load round trip: the JSON text, the model load ran on, how
    \* load ended
    saved, loaded, loadResult,
    \* the last Model.getLoss or Model.predict call: the arguments, the
    \* number getLoss returned, the Matrix predict returned, the error thrown
    evalX, evalY, totalLoss, yPred, thrown,
    \* calls on GV matrices: the Matrix object matA, the other operand matB,
    \* and the last call made: its name, the kind of its argument, the error
    \* it threw and the value it returned
    matA, matB, matOut,
    \* the train calls in flight on the model: the call whose locals the
    \* variables above hold, and the locals of a call that waits
    cur, parked,
    \* the last call made on a layer directly: its number, name and arguments
    layerCall,
    \* the isTraining flag of the mode-aware layers of the model (those with an
    \* isTraining property, as Dropout), and the flag as it was during the
    \* last forward pass of a validation pass, a training batch or getLoss
    isTraining, passMode

modelVars == <<inputDim, layers, heap, lossFunction>>
argVars   == <<xTrain, yTrain, xValidation, yValidation, opt>>
localVars == <<pc, i, j, lr, loss, valLoss, batchLoss, trainLosses,
               validationLosses, weightHistory, bestValLoss, patienceCounter,
               indices, state>>
endVars   == <<promise, outcome>>
histVars  == <<shuffled, evalWeights, epochBatches, calls, updates, fsLog, passes>>
trainVars == <<argVars, localVars, endVars, histVars>>
permVars  == <<vectors, permIn, permBefore, permOut>>
storeVars == <<saved, loaded, loadResult>>
evalVars  == <<evalX, evalY, totalLoss, yPred, thrown>>
matVars   == <<matA, matB, matOut>>
taskVars  == <<cur, parked>>
layerVars == <<layerCall>>
modeVars  == <<isTraining, passMode>>
restVars  == <<permVars, storeVars, evalVars, matVars, taskVars, layerVars>>
otherVars == <<restVars, modeVars>>
vars      == <<modelVars, trainVars, otherVars>>

\* JS null for a number-valued local, and for an absent validation Matrix
\* (a validation Matrix given to train has at least one row here)
JSNull == <<>>

\* the weight values of all layers, by value
WeightValues == [l \in 1..Len(layers) |-> heap[layers[l].W]] \o <<>>

\* [...this.layers.map(layer => layer.getWeights())]: the references
Snapshot == [l \in 1..Len(layers) |-> getWeights(layers[l])] \o <<>>

\* a variant of batchPerEpoch that rounds down
batchPerEpochFloor == Len(xTrain) \div opt.batchSize

\* Math.ceil(xTrain.length / batchSize)
batchPerEpoch == CeilDiv(Len(xTrain), opt.batchSize)

----------------------------------------------------------------------------
(* Inputs *)

\* weights addLayer may draw for the Dense(1) layer of a Model(1, SquareLoss):
\* a weight row and a bias row
InitWeights == { << <<Num(w)>>, <<Num(0)>> >> : w \in 0..1 }

\* training sets: row k is x = (k - 1) mod 2 with target 1; at most one
\* target is replaced by NaN or +Infinity
Targets(n) ==
    { [k \in 1..n |-> <<Num(1)>>] } \cup
    { [k \in 1..n |-> IF k = p THEN <<bad>> ELSE <<Num(1)>>] :
        p \in 1..n, bad \in {NaN, PInf} }

TrainInputs(n) == [k \in 1..n |-> <<Num((k - 1) % 2)>>]

\* validation sets: one row x = 1 with target 0, 1 or NaN
ValTargets == { << <<v>> >> : v \in {Num(0), Num(1), NaN} }
ValInputs  == << <<Num(1)>> >>

\* a callback option: absent, or a function returning the value named
CallbackKinds == {"absent", "undefined", "false", "true"}

\* the options of train that this model varies; the others keep the
\* defaults of the code (lrSchedule 'constant', checkpointFrequency 0,
\* gradientClipping 0, momentum 0.9, weightDecay 0) with lr = 1 and
\* lrDecay = 1, and both callbacks registered
Options(hasVal) ==
    { [lr |-> Num(1), lrDecay |-> Num(1), lrSchedule |-> "constant",
       batchSize |-> b, maxEpochs |-> m,
       earlyStoppingPatience |-> pt, earlyStoppingMinDelta |-> md,
       maxValidationLossIncreaseCount |-> c,
       checkpointFrequency |-> 0, gradientClipping |-> Num(0),
       momentum |-> Frac(9, 10), weightDecay |-> Num(0),
       callbacks |-> [onBatchEnd |-> "undefined", onEpochEnd |-> "undefined"]] :
         b \in 1..MaxBatch, m \in 1..MaxEpochs,
         pt \in (IF hasVal THEN 1..MaxPatience ELSE {MaxPatience}),
         md \in (IF hasVal THEN {Num(0), Frac(1, 4)} ELSE {Num(0)}),
         c \in 0..1 }

----------------------------------------------------------------------------
(* Model.train *)

\* no train call made
NoTrain ==
    /\ xTrain = <<>> /\ yTrain = <<>>
    /\ xValidation = JSNull /\ yValidation = JSNull
    /\ opt = [batchSize |-> 1,
               callbacks |-> [onBatchEnd |-> "absent", onEpochEnd |-> "absent"]]
    /\ pc = "idle"
    /\ i = 0 /\ j = 0
    /\ lr = JSNull /\ loss = JSNull /\ valLoss = JSNull /\ batchLoss = JSNull
    /\ trainLosses = <<>> /\ validationLosses = <<>>
    /\ weightHistory = <<>>
    /\ bestValLoss = PInf
    /\ patienceCounter = 0
    /\ indices = <<>>
    /\ state = [epoch |-> 0, batches |-> 0, checkpoints |-> <<>>]
    /\ promise = "none" /\ outcome = "none"
    /\ shuffled = <<>> /\ evalWeights = <<>> /\ epochBatches = <<>>
    /\ calls = <<>> /\ updates = 0 /\ fsLog = <<>> /\ passes = <<>>
    /\ cur = 1 /\ parked = <<>>
    /\ layerCall = [n |-> 0, op |-> "none"]
    /\ isTraining = TRUE /\ passMode = [kind |-> "none", isTraining |-> TRUE]

\* no randomPermutation, save, load or getLoss call made
NoPerm  == vectors = <<>> /\ permIn = Null /\ permBefore = <<>> /\ permOut = Null
NoStore == saved = <<>> /\ loaded = <<>> /\ loadResult = "none"
NoCall  == [op |-> "none", arg |-> "none", error |-> "none", value |-> <<>>]
NoMat   == matA = <<>> /\ matB = <<>> /\ matOut = NoCall
NoEval  ==
    /\ evalX = <<>> /\ evalY = <<>> /\ totalLoss = JSNull
    /\ yPred = <<>> /\ thrown = "none"

\* a Model(1, SquareLoss) with one Dense(1) layer
Init ==
    /\ inputDim = 1
    /\ lossFunction = "SquareLoss"
    /\ \E w \in InitWeights :
          /\ heap = <<w>>
          /\ layers = << [size |-> 1, activation |-> "none", W |-> 1] >>
    /\ NoTrain /\ NoPerm /\ NoStore /\ NoEval /\ NoMat

\* the try block around fs.mkdirSync(checkpointDir), entered when
\* checkpointFrequency > 0: the call returns or throws
MkDir(o) ==
    IF o.checkpointFrequency > 0
    THEN { <<[call |-> "mkdirSync", path |-> <<"checkpointDir", 0>>, ok |-> ok]>> :
             ok \in BOOLEAN }
    ELSE { <<>> }

\* a variant of Checkpoint that lists the path whether or not the write
\* succeeded
CheckpointListed(st, path, due) ==
    IF due
    THEN \E ok \in BOOLEAN :
            /\ fsLog' = Append(fsLog, [call |-> "writeFileSync", path |-> path, ok |-> ok])
            /\ state' = [st EXCEPT !.checkpoints = Append(@, path)]
    ELSE fsLog' = fsLog /\ state' = st

\* the try block around fs.writeFileSync(checkpointPath, this.save()),
\* entered when the checkpoint is due: the write returns or throws, and the
\* path is pushed on state.checkpoints after a write that returned.  st is
\* the state object before.
Checkpoint(st, path, due) ==
    IF due
    THEN \E ok \in BOOLEAN :
            /\ fsLog' = Append(fsLog, [call |-> "writeFileSync", path |-> path, ok |-> ok])
            /\ state' = IF ok THEN [st EXCEPT !.checkpoints = Append(@, path)] ELSE st
    ELSE fsLog' = fsLog /\ state' = st

\* train(xTrain, yTrain, options) up to the call of startTraining: the
\* options are destructured and the locals initialised, the checkpoint
\* directory made
Begin(xs, ys, xv, yv, o) ==
    /\ xTrain' = xs
    /\ yTrain' = ys
    /\ xValidation' = xv
    /\ yValidation' = yv
    /\ opt' = o
    /\ lr' = o.lr
    /\ pc' = "loop"
    /\ i' = 0
    /\ promise' = "pending"
    /\ outcome' = "running"
    /\ fsLog' \in MkDir(o)
    /\ UNCHANGED <<modelVars, j, loss, valLoss, batchLoss, trainLosses,
                   validationLosses, weightHistory, bestValLoss, patienceCounter,
                   indices, state, shuffled, evalWeights, epochBatches, calls,
                   updates, passes, otherVars>>

Train ==
    /\ pc = "idle"
    /\ \E n \in 1..MaxTrain, hasVal \in BOOLEAN :
       \E ys \in Targets(n), o \in Options(hasVal) :
          IF hasVal
          THEN \E yv \in ValTargets : Begin(TrainInputs(n), ys, ValInputs, yv, o)
          ELSE Begin(TrainInputs(n), ys, JSNull, JSNull, o)

\* a variant of Schedule whose 'step' branch multiplies in every epoch
ScheduleEveryEpoch(o, rate, e) ==
    CASE o.lrSchedule = "decay" ->
            NDiv(o.lr, NAdd(Num(1), NMul(Frac(1, 10000), Num(e))))
      [] o.lrSchedule = "step" -> NMul(rate, Frac(1, 10))
      [] OTHER -> NMul(rate, o.lrDecay)

\* the learning-rate schedule at the start of epoch e (0-based)
Schedule(o, rate, e) ==
    CASE o.lrSchedule = "decay" ->
            NDiv(o.lr, NAdd(Num(1), NMul(Frac(1, 10000), Num(e))))
      [] o.lrSchedule = "step" ->
            IF e > 0 /\ e % 10 = 0 THEN NMul(rate, Frac(1, 10)) ELSE rate
      [] OTHER -> NMul(rate, o.lrDecay)

\* the validation pass of trainEpoch: the sum of the batch losses of the
\* first nb batches of the validation set
\* layers[layers.length - 2]: the output of the last layer
LastL(computedLayers) == computedLayers[Len(computedLayers) - 1]

\* the loss of one validation batch
ValBatchLoss(hp, lys, valBatchX, valBatchY) ==
    computeLoss(Transpose(valBatchY),
                LastL(computeLayers(hp, lys, valBatchX, valBatchY).layers))

RECURSIVE ValSum(_, _, _, _, _, _)
ValSum(hp, lys, xV, yV, batchSize, nb) ==
    IF nb = 0 THEN Num(0)
    ELSE NAdd(ValSum(hp, lys, xV, yV, batchSize, nb - 1),
              ValBatchLoss(hp, lys,
                           Slice(xV, (nb - 1) * batchSize, Min(nb * batchSize, Len(xV))),
                           Slice(yV, (nb - 1) * batchSize, Min(nb * batchSize, Len(xV)))))

\* Model.setTrainingMode(v): the flag of the mode-aware layers afterwards
setTrainingModeOn(flag, v) == IF v THEN v ELSE flag
setTrainingMode(flag, v) == v

\* the row arrays of the valBatchX of the first nb validation batches, on
\* which _computeLayers pushes the bias
RECURSIVE ValBatchRows(_, _, _)
ValBatchRows(xV, batchSize, nb) ==
    IF nb = 0 THEN <<>>
    ELSE ValBatchRows(xV, batchSize, nb - 1)
         \o SlicedRows(SharedRows(xV), (nb - 1) * batchSize, Min(nb * batchSize, Len(xV)))

\* valLoss: the mean of the batch losses over the number of batches
ValidationLoss(hp, lys, xV, yV, batchSize) ==
    NDiv(ValSum(hp, lys, xV, yV, batchSize, CeilDiv(Len(xV), batchSize)),
         Num(CeilDiv(Len(xV), batchSize)))

\* a variant of Improved that takes an equal loss as an improvement
ImprovedOrEqual(vl, best, minDelta) == ~NLt(NSub(best, minDelta), vl)

\* valLoss < bestValLoss - earlyStoppingMinDelta
Improved(vl, best, minDelta) == NLt(vl, NSub(best, minDelta))

\* patienceCounter >= earlyStoppingPatience
PatienceExhausted(counter, patience) == counter >= patience

\* the indices, the permutation drawn and discarded, and the batch loop entered
Shuffled(r) ==
    /\ indices' = r.vectors[1]
    /\ shuffled' = r.vectors[r.ref]

EnterBatchLoop ==
    /\ pc' = "batch"
    /\ loss' = Num(0)
    /\ \E draws \in Draws(Len(xTrain)) :
          Shuffled(randomPermutation(<<Keys(Len(xTrain))>>, 1, draws))
    /\ epochBatches' = <<>>
    /\ j' = 0
    /\ UNCHANGED <<layers, promise, outcome>>

\* the legacy stop check: validationLossIncreaseCount stays 0; when it is
\* >= maxValidationLossIncreaseCount the loop header for(j in this.layers)
\* assigns the undeclared j, a ReferenceError in module code
LegacyCheck ==
    IF 0 >= opt.maxValidationLossIncreaseCount
    THEN /\ pc' = "done"
         /\ promise' = "rejected"
         /\ outcome' = "referenceError"
         /\ UNCHANGED <<layers, loss, indices, shuffled, epochBatches, j>>
    ELSE EnterBatchLoop

\* early stopping triggered: bestWeights = weightHistory[best]; undefined
\* when weightHistory is that short, and bestWeights[j] throws a TypeError
Restore(best) ==
    /\ pc' = "done"
    /\ IF best >= Len(weightHistory)
       THEN /\ promise' = "rejected"
            /\ outcome' = "typeError"
            /\ UNCHANGED layers
       ELSE /\ promise' = "resolved"
            /\ outcome' = "earlyStopped"
            /\ layers' = [l \in 1..Len(layers) |->
                            setWeights(layers[l], weightHistory[best + 1][l])] \o <<>>
    /\ UNCHANGED <<loss, indices, shuffled, epochBatches, j>>

\* the early-stopping block for the validation loss vl of this epoch
EarlyStopping(vl, improved) ==
    /\ valLoss' = vl
    /\ validationLosses' = Append(validationLosses, vl)
    /\ evalWeights' = Append(evalWeights, WeightValues)
    /\ IF improved
       THEN /\ bestValLoss' = vl
            /\ patienceCounter' = 0
            /\ weightHistory' = Append(weightHistory, Snapshot)
            /\ Checkpoint([state EXCEPT !.epoch = i + 1], <<"best_model_epoch", i + 1>>,
                          opt.checkpointFrequency > 0)
            /\ LegacyCheck
       ELSE /\ patienceCounter' = patienceCounter + 1
            /\ Checkpoint([state EXCEPT !.epoch = i + 1], <<"best_model_epoch", i + 1>>,
                          FALSE)
            /\ UNCHANGED <<bestValLoss, weightHistory>>
            /\ IF PatienceExhausted(patienceCounter + 1, opt.earlyStoppingPatience)
               THEN Restore(argmin(Append(validationLosses, vl)))
               ELSE LegacyCheck

Validate(vl) == EarlyStopping(vl, Improved(vl, bestValLoss, opt.earlyStoppingMinDelta))

\* the validation pass runs between setTrainingMode(false) and
\* setTrainingMode(true); m is the flag as the epoch has set it
ValidationMode(m) ==
    /\ passMode' = [kind |-> "validation", isTraining |-> setTrainingMode(m, FALSE)]
    /\ isTraining' = setTrainingMode(setTrainingMode(m, FALSE), TRUE)

\* trainEpoch(i) up to the batch loop: learning-rate schedule, validation
\* pass, early-stopping check and restore, the legacy stop check, the
\* shuffle.  It ends the run (early stop, or an exception that rejects the
\* promise) or enters the batch loop.
EpochBegin ==
    /\ pc = "loop"
    /\ i < opt.maxEpochs
    /\ lr' = Schedule(opt, lr, i)
    /\ IF xValidation # JSNull
       THEN ValidationMode(setTrainingMode(isTraining, TRUE))
       ELSE /\ isTraining' = setTrainingMode(isTraining, TRUE)
            /\ UNCHANGED passMode
    /\ IF xValidation # JSNull
       THEN Validate(ValidationLoss(heap, layers, xValidation, yValidation,
                                    opt.batchSize))
       ELSE /\ UNCHANGED <<valLoss, validationLosses, evalWeights, bestValLoss,
                           patienceCounter, weightHistory, fsLog>>
            /\ state' = [state EXCEPT !.epoch = i + 1]
            /\ LegacyCheck
    /\ xValidation' = BiasPushed(xValidation,
                          ValBatchRows(xValidation, opt.batchSize,
                                       CeilDiv(Len(xValidation), opt.batchSize)))
    /\ UNCHANGED <<inputDim, heap, lossFunction, xTrain, yTrain, yValidation, opt, i,
                   batchLoss,
                   trainLosses, calls, updates, passes,
                   restVars>>

\* the body of the batch loop up to the NaN check: forward pass, weight
\* update, batch loss
\* gradient clipping of the batch loop: a derivative Matrix whose norm
\* sqrt(sum(pow(d, 2))) exceeds c > 0 is scaled by c / norm
Clip(d, c) ==
    IF NGt(c, Num(0)) /\ NGt(Sqrt(sum(pow2(d))), c)
    THEN scale(d, NDiv(c, Sqrt(sum(pow2(d)))))
    ELSE d

Computed(hp, lys, batchY, rate, o, cl) ==
    [heap      |-> modelUpdateWeights(hp, lys, rate, cl.layers,
                                      [k \in 1..Len(cl.derivatives) |->
                                          Clip(cl.derivatives[k], o.gradientClipping)]
                                      \o <<>>,
                                      o.batchSize, o.momentum, o.weightDecay,
                                      [l \in 1..Len(lys) |->
                                          [weights |-> "null", biases |-> "null"]]),
     batchLoss |-> computeLoss(Transpose(batchY), LastL(cl.layers))]

\* o holds the options the loop body reads: batchSize, gradientClipping,
\* momentum, weightDecay
trainBatch(hp, lys, batchX, batchY, rate, o) ==
    Computed(hp, lys, batchY, rate, o, computeLayers(hp, lys, batchX, batchY))

\* if (callbacks[name]) callbacks[name](state, {...}): the call is made when
\* a callback is given, and the value it returns is dropped
NotifyTwice(cb, call) == IF cb = "absent" THEN calls ELSE calls \o <<call, call>>
Notify(cb, call) == IF cb = "absent" THEN calls ELSE Append(calls, call)

\* the weights the body of the batch loop leaves: hp before _updateWeights,
\* r.heap after it; the NaN check that follows restores nothing
BatchWeightsRolledBack(hp, r) == IF isNaN(r.batchLoss) THEN hp ELSE r.heap
BatchWeights(hp, r) == r.heap

\* a variant of BatchEnd that ends the run when onBatchEnd returns false
BatchEndObeying(r) ==
    /\ heap' = BatchWeights(heap, r)
    /\ batchLoss' = r.batchLoss
    /\ IF isNaN(r.batchLoss)
       THEN /\ pc' = "done"
            /\ promise' = "rejected"
            /\ outcome' = "nanAbort"
            /\ UNCHANGED <<loss, calls, j>>
       ELSE /\ loss' = NAdd(loss, r.batchLoss)
            /\ calls' = Notify(opt.callbacks.onBatchEnd, <<"onBatchEnd", i, j>>)
            /\ j' = j + 1
            /\ IF opt.callbacks.onBatchEnd = "false"
               THEN pc' = "done" /\ promise' = "resolved" /\ outcome' = "maxEpochs"
               ELSE UNCHANGED <<pc, promise, outcome>>

\* the NaN check, the loss accumulation and the onBatchEnd callback
BatchEnd(r) ==
    /\ heap' = BatchWeights(heap, r)
    /\ batchLoss' = r.batchLoss
    /\ IF isNaN(r.batchLoss)
       THEN /\ pc' = "done"
            /\ promise' = "rejected"
            /\ outcome' = "nanAbort"
            /\ UNCHANGED <<loss, calls, j>>
       ELSE /\ loss' = NAdd(loss, r.batchLoss)
            /\ calls' = Notify(opt.callbacks.onBatchEnd, <<"onBatchEnd", i, j>>)
            /\ j' = j + 1
            /\ UNCHANGED <<pc, promise, outcome>>

\* the row numbers 1..n of a Matrix of n rows
RowIds(m) == [k \in 1..Len(m) |-> k] \o <<>>

\* rows startIdx .. endIdx - 1 of permX or permY for batch j
BatchRows(m) ==
    Slice(fromIndices(m, indices), j * opt.batchSize,
          Min((j + 1) * opt.batchSize, Len(xTrain)))

\* what iteration j of the batch loop computes from the current weights
BatchResult ==
    trainBatch(heap, layers, BatchRows(xTrain), BatchRows(yTrain), lr, opt)

\* one iteration of the batch loop
Batch ==
    /\ pc = "batch"
    /\ j < batchPerEpoch
    /\ state' = [state EXCEPT !.batches = @ + 1]
    /\ updates' = updates + 1
    /\ passes' = BatchPasses(layers)
    /\ passMode' = [kind |-> "batch", isTraining |-> isTraining]
    /\ epochBatches' = Append(epochBatches,
          [x |-> BatchRows(RowIds(xTrain)), y |-> BatchRows(RowIds(yTrain))])
    /\ BatchEnd(BatchResult)
    /\ xTrain' = BiasPushed(xTrain,
                     SlicedRows(SharedRows(fromIndices(xTrain, indices)),
                                j * opt.batchSize,
                                Min((j + 1) * opt.batchSize, Len(xTrain))))
    /\ UNCHANGED <<inputDim, layers, lossFunction, yTrain, xValidation, yValidation,
                   opt, i, lr, valLoss,
                   trainLosses, validationLosses, weightHistory, bestValLoss,
                   patienceCounter, indices, shuffled, evalWeights, fsLog,
                   isTraining, restVars>>

\* trainEpoch(i) after the batch loop: the epoch loss, the end-of-epoch
\* weightHistory entry, the onEpochEnd callback; startTraining then awaits
\* the timer
EpochEnd ==
    /\ pc = "batch"
    /\ j = batchPerEpoch
    /\ loss' = NDiv(loss, Num(batchPerEpoch))
    /\ trainLosses' = Append(trainLosses, loss')
    /\ weightHistory' = Append(weightHistory, Snapshot)
    /\ calls' = Notify(opt.callbacks.onEpochEnd, <<"onEpochEnd", i, j>>)
    /\ Checkpoint(state, <<"checkpoint_epoch", i + 1>>,
                  opt.checkpointFrequency > 0 /\ (i + 1) % opt.checkpointFrequency = 0)
    /\ shuffled' = <<>>
    /\ pc' = "yield"
    /\ UNCHANGED <<modelVars, argVars, i, j, lr, valLoss, batchLoss,
                   validationLosses, bestValLoss, patienceCounter, indices,
                   endVars, evalWeights, epochBatches, updates, passes,
                   otherVars>>

\* the timer of startTraining fires: the for loop goes to the next epoch
Resume ==
    /\ pc = "yield"
    /\ i' = i + 1
    /\ pc' = "loop"
    /\ UNCHANGED <<modelVars, argVars, j, lr, loss, valLoss, batchLoss,
                   trainLosses, validationLosses, weightHistory, bestValLoss,
                   patienceCounter, indices, state, endVars, histVars, otherVars>>

\* the for loop of startTraining ends at maxIter: the history is returned
Finish ==
    /\ pc = "loop"
    /\ i >= opt.maxEpochs
    /\ pc' = "done"
    /\ promise' = "resolved"
    /\ outcome' = "maxEpochs"
    /\ UNCHANGED <<modelVars, argVars, i, j, lr, loss, valLoss, batchLoss,
                   trainLosses, validationLosses, weightHistory, bestValLoss,
                   patienceCounter, indices, state, histVars, otherVars>>

\* train called with the options the base runs leave at their defaults: the
\* callbacks registered or not and returning undefined, false or true,
\* on a training set of one or two rows, without or with a validation row
CallbackRuns ==
    { [x |-> TrainInputs(n), y |-> ys, xv |-> v.x, yv |-> v.y,
       opt |-> [lr |-> Num(1), lrDecay |-> Num(1), lrSchedule |-> "constant",
                batchSize |-> 1, maxEpochs |-> 2,
                earlyStoppingPatience |-> 1, earlyStoppingMinDelta |-> Num(0),
                maxValidationLossIncreaseCount |-> 1,
                checkpointFrequency |-> 0, gradientClipping |-> Num(0),
                momentum |-> Frac(9, 10), weightDecay |-> Num(0),
                callbacks |-> [onBatchEnd |-> a, onEpochEnd |-> b]]] :
        n \in 1..2, ys \in Targets(1) \cup Targets(2),
        v \in { [x |-> JSNull, y |-> JSNull],
                [x |-> ValInputs, y |-> << <<Num(0)>> >>] },
        a \in CallbackKinds, b \in CallbackKinds }

\* the options of a run that leaves all but maxEpochs at the values above
\* (callbacks registered and returning undefined)
PlainOptions(m) ==
    [lr |-> Num(1), lrDecay |-> Num(1), lrSchedule |-> "constant",
     batchSize |-> 1, maxEpochs |-> m,
     earlyStoppingPatience |-> 1, earlyStoppingMinDelta |-> Num(0),
     maxValidationLossIncreaseCount |-> 1,
     checkpointFrequency |-> 0, gradientClipping |-> Num(0),
     momentum |-> Frac(9, 10), weightDecay |-> Num(0),
     callbacks |-> [onBatchEnd |-> "undefined", onEpochEnd |-> "undefined"]]

\* the values given to the options momentum and weightDecay
Momenta == {Num(0), Frac(9, 10)}
Decays  == {Num(0), Frac(1, 2)}

MomentumRuns ==
    { [x |-> TrainInputs(2), y |-> ys, xv |-> JSNull, yv |-> JSNull,
       opt |-> [PlainOptions(2) EXCEPT !.momentum = mo, !.weightDecay = wd,
                                       !.batchSize = b]] :
        ys \in Targets(2), mo \in Momenta, wd \in Decays, b \in 1..2 }

\* runs with gradient clipping off and on, in batches of one example
ClipRuns ==
    { [x |-> TrainInputs(2), y |-> << <<Num(1)>>, <<Num(1)>> >>,
       xv |-> JSNull, yv |-> JSNull,
       opt |-> [PlainOptions(2) EXCEPT !.gradientClipping = c]] :
        c \in {Num(0), Frac(1, 2), Num(1)} }

\* runs under each learning-rate schedule on the one row x = 0: 'decay'
\* for 3 epochs, 'step' for 11, and the default branch with lrDecay = 1/2
\* for 3 epochs under the names 'constant' and 'cosine'
ScheduleRuns ==
    { [x |-> TrainInputs(1), y |-> << <<Num(v)>> >>, xv |-> JSNull, yv |-> JSNull,
       opt |-> [PlainOptions(s[2]) EXCEPT !.lrSchedule = s[1], !.lrDecay = Frac(1, 2)]] :
        v \in 0..1,
        s \in { <<"decay", 3>>, <<"step", 11>>, <<"constant", 3>>, <<"cosine", 3>> } }

\* runs of 2 epochs on one row, with and without a validation row, with
\* checkpointFrequency 0, 1 and 2
CheckpointRuns ==
    { [x |-> TrainInputs(1), y |-> << <<Num(1)>> >>, xv |-> v[1], yv |-> v[2],
       opt |-> [PlainOptions(2) EXCEPT !.checkpointFrequency = f]] :
        v \in { <<JSNull, JSNull>>, <<ValInputs, << <<Num(1)>> >> >> },
        f \in 0..2 }

OptionRuns ==
    { r \in CallbackRuns : Len(r.x) = Len(r.y) } \cup MomentumRuns \cup ClipRuns
        \cup ScheduleRuns \cup CheckpointRuns

TrainOptions ==
    /\ pc = "idle"
    /\ \E r \in OptionRuns : Begin(r.x, r.y, r.xv, r.yv, r.opt)

Next == Train \/ EpochBegin \/ Batch \/ EpochEnd \/ Resume \/ Finish

Spec == Init /\ [][Next]_vars

NextOptions == TrainOptions \/ EpochBegin \/ Batch \/ EpochEnd \/ Resume \/ Finish

SpecOptions == Init /\ [][NextOptions]_vars

----------------------------------------------------------------------------
(* GV.randomPermutation called on its own *)

\* the Vectors given to randomPermutation: every Vector of at most MaxVec
\* values out of 0, 1, 2 (the index Vectors 0..n-1 among them)
VectorInputs == UNION { [1..n -> 0..2] : n \in 0..MaxVec }

\* a Model without layers; one Vector object, not yet permuted
PermInit ==
    /\ inputDim = 1 /\ lossFunction = "SquareLoss" /\ layers = <<>> /\ heap = <<>>
    /\ NoTrain /\ NoStore /\ NoEval /\ NoMat
    /\ \E v \in VectorInputs :
          /\ vectors = <<v>>
          /\ permBefore = v
    /\ permIn = 1
    /\ permOut = Null

Returned(r) ==
    /\ vectors' = r.vectors
    /\ permOut' = r.ref

\* GV.randomPermutation(v) for the Vector v = vectors[permIn]
Permute ==
    /\ permOut = Null
    /\ \E draws \in Draws(Len(vectors[permIn])) :
          Returned(randomPermutation(vectors, permIn, draws))
    /\ UNCHANGED <<modelVars, trainVars, permIn, permBefore, storeVars, evalVars, matVars,
                   taskVars, layerVars, modeVars>>

NextPerm == Permute

SpecPerm == PermInit /\ [][NextPerm]_vars

----------------------------------------------------------------------------
(* Model.save and Model.load *)

\* constructor.name of an object made by the constructor c: NN.Dense,
\* NN.SquareLoss, ... are anonymous function expressions assigned to a
\* property of NN, and such a function has the empty string as its name
ConstructorName(c) == ""

\* a number after JSON.stringify and JSON.parse: a non-finite number is
\* written as null, which reads as 0 in arithmetic
JSONNumber(a) == IF IsFinite(a) THEN a ELSE Num(0)

\* layer.W ? layer.W.rows : null after JSON.stringify and JSON.parse
JSONWeights(hp, layer) ==
    IF layer.W = Null THEN <<"null">>
    ELSE <<"array", [r \in 1..Len(hp[layer.W]) |->
                      [c \in 1..Len(hp[layer.W][r]) |-> JSONNumber(hp[layer.W][r][c])]
                      \o <<>>] \o <<>> >>

\* Model.save(): the JSON text, as the value JSON.parse makes of it; params
\* is the empty object for a Dense layer (rate and alpha are undefined)
save(dim, lys, hp, lossFn) ==
    [inputDim     |-> dim,
     layers       |-> [l \in 1..Len(lys) |->
                         [type    |-> ConstructorName("Dense"),
                          size    |-> lys[l].size,
                          weights |-> JSONWeights(hp, lys[l])]] \o <<>>,
     lossFunction |-> ConstructorName(lossFn)]

\* the value of the variable layer that no case of the switch assigned
Undefined == [undefined |-> TRUE]

\* the switch over layerState.type in load (the Dense case; a Dense layer
\* made by new NN.Dense(size) has no activation and no weights)
LoadedLayer(layerState) ==
    IF layerState.type = "Dense"
    THEN [size |-> layerState.size, activation |-> "none", W |-> Null]
    ELSE Undefined

\* one iteration of the loop of load: layer.W = new Matrix(weights) when the
\* weights are given, a TypeError on an undefined layer; then the push
AddLoaded(acc, layerState, layer) ==
    IF acc.error # "none" THEN acc
    ELSE IF layerState.weights[1] = "array"
    THEN IF layer = Undefined
         THEN [acc EXCEPT !.error = "TypeError"]
         ELSE [layers |-> Append(acc.layers, [layer EXCEPT !.W = Len(acc.heap) + 1]),
               heap   |-> Append(acc.heap, layerState.weights[2]),
               error  |-> "none"]
    ELSE [acc EXCEPT !.layers = Append(@, layer)]

\* the loop of load over the first k entries of state.layers
RECURSIVE LoadLayers(_, _)
LoadLayers(layerStates, k) ==
    IF k = 0 THEN [layers |-> <<>>, heap |-> <<>>, error |-> "none"]
    ELSE AddLoaded(LoadLayers(layerStates, k - 1), layerStates[k],
                   LoadedLayer(layerStates[k]))

\* the names the switch over state.lossFunction knows
LossNames == {"Softmax", "SquareLoss", "CrossEntropy", "Hinge", "Huber"}

\* the loss function of the model after load: the one named, else unchanged
LoadedLoss(name, before) == IF name \in LossNames THEN name ELSE before

Loaded(target, modelState, acc) ==
    [inputDim     |-> modelState.inputDim,
     layers       |-> acc.layers,
     heap         |-> acc.heap,
     lossFunction |-> IF acc.error = "none"
                      THEN LoadedLoss(modelState.lossFunction, target.lossFunction)
                      ELSE target.lossFunction,
     error        |-> acc.error]

\* target.load(modelState): the target model afterwards and the error thrown
load(target, modelState) ==
    Loaded(target, modelState, LoadLayers(modelState.layers, Len(modelState.layers)))

\* the weights of a Dense(1) layer behind one input: a weight and a bias row
DenseWeights == { << <<Num(w)>>, <<Num(b)>> >> : w \in {-1, 1}, b \in 0..1 }

\* a Model(1, SquareLoss) of 1..MaxLayers Dense(1) layers, each with or
\* without the relu activation
StoreInit ==
    /\ inputDim = 1
    /\ lossFunction = "SquareLoss"
    /\ \E n \in 1..MaxLayers :
       \E ws \in [1..n -> DenseWeights], acts \in [1..n -> {"none", "relu"}] :
          /\ heap = ws
          /\ layers = [l \in 1..n |-> [size |-> 1, activation |-> acts[l], W |-> l]]
    /\ NoTrain /\ NoPerm /\ NoStore /\ NoEval /\ NoMat

\* modelState = model.save()
Save ==
    /\ saved = <<>>
    /\ saved' = <<save(inputDim, layers, heap, lossFunction)>>
    /\ UNCHANGED <<modelVars, trainVars, permVars, loaded, loadResult, evalVars, matVars,
                   taskVars, layerVars, modeVars>>

LoadEnd(r) ==
    /\ loaded' = <<[inputDim |-> r.inputDim, layers |-> r.layers, heap |-> r.heap,
                    lossFunction |-> r.lossFunction]>>
    /\ loadResult' = IF r.error = "none" THEN "ok" ELSE r.error

\* new NN.Model(1, new NN[fn]()).load(modelState)
Load ==
    /\ saved # <<>>
    /\ loadResult = "none"
    /\ \E fn \in {"SquareLoss", "Hinge"} :
          LoadEnd(load([inputDim |-> 1, lossFunction |-> fn], saved[1]))
    /\ UNCHANGED <<modelVars, trainVars, permVars, saved, evalVars, matVars,
                   taskVars, layerVars, modeVars>>

NextStore == Save \/ Load

SpecStore == StoreInit /\ [][NextStore]_vars

----------------------------------------------------------------------------
(* Model.getLoss *)

\* let batchSize = 32 in Model.getLoss
GetLossBatchSize == 32

\* the loss of one batch times its number of examples
WeightedBatchLoss(hp, lys, batchX, batchY) ==
    NMul(computeLoss(Transpose(batchY), predict(hp, lys, batchX)), Num(Len(batchX)))

\* totalLoss after the first nb batches
RECURSIVE LossSum(_, _, _, _, _)
LossSum(hp, lys, x, y, nb) ==
    IF nb = 0 THEN Num(0)
    ELSE NAdd(LossSum(hp, lys, x, y, nb - 1),
              WeightedBatchLoss(hp, lys,
                  Slice(x, (nb - 1) * GetLossBatchSize,
                        Min(nb * GetLossBatchSize, Len(x))),
                  Slice(y, (nb - 1) * GetLossBatchSize,
                        Min(nb * GetLossBatchSize, Len(x)))))

\* the row arrays predict pushes the bias on in the first nb batches of
\* getLoss: copies made by predict of the copies made by getLoss
RECURSIVE GetLossRows(_, _)
GetLossRows(x, nb) ==
    IF nb = 0 THEN <<>>
    ELSE GetLossRows(x, nb - 1)
         \o PredictRows(SlicedRows(SharedRows(x), (nb - 1) * GetLossBatchSize,
                                    Min(nb * GetLossBatchSize, Len(x))))

\* Model.getLoss(x, y)
getLoss(hp, lys, x, y) ==
    NDiv(LossSum(hp, lys, x, y, CeilDiv(Len(x), GetLossBatchSize)), Num(Len(x)))

\* datasets of 1, 2 and GetLossBatchSize + 1 examples: row k is
\* x = (k - 1) mod 2; the targets of the first two rows vary over 0, 1, 2,
\* the others are 1
EvalSizes == {1, 2, GetLossBatchSize + 1}

EvalTargets(n) ==
    { [k \in 1..n |-> <<Num(IF k = 1 THEN a ELSE IF k = 2 THEN b ELSE 1)>>] :
        a \in 0..2, b \in (IF n = 1 THEN {1} ELSE 0..2) }

EvalWeights == { << <<Num(w)>>, <<Num(b)>> >> : w \in 0..1, b \in 0..1 }

\* a Model(1, SquareLoss) with one Dense(1) layer and a dataset
EvalInit ==
    /\ inputDim = 1
    /\ lossFunction = "SquareLoss"
    /\ \E w \in EvalWeights :
          /\ heap = <<w>>
          /\ layers = << [size |-> 1, activation |-> "none", W |-> 1] >>
    /\ \E n \in EvalSizes :
          /\ evalX = TrainInputs(n)
          /\ evalY \in EvalTargets(n)
    /\ totalLoss = JSNull /\ yPred = <<>> /\ thrown = "none"
    /\ NoTrain /\ NoPerm /\ NoStore /\ NoMat

\* getLoss calls setTrainingMode(false), predict on every batch, and
\* setTrainingMode(true) when no predict call has thrown
GetLossMode(exception) ==
    /\ passMode' = [kind |-> "getLoss", isTraining |-> setTrainingMode(isTraining, FALSE)]
    /\ isTraining' = IF exception = "none"
                     THEN setTrainingMode(setTrainingMode(isTraining, FALSE), TRUE)
                     ELSE setTrainingMode(isTraining, FALSE)

\* model.getLoss(evalX, evalY)
GetLoss ==
    /\ totalLoss = JSNull
    /\ totalLoss' = getLoss(heap, layers, evalX, evalY)
    /\ GetLossMode("none")
    /\ evalX' = BiasPushed(evalX, GetLossRows(evalX, CeilDiv(Len(evalX), GetLossBatchSize)))
    /\ UNCHANGED <<modelVars, trainVars, permVars, storeVars, evalY, yPred, thrown,
                   matVars, taskVars, layerVars>>

NextEval == GetLoss

SpecEval == EvalInit /\ [][NextEval]_vars


----------------------------------------------------------------------------
(* A model built and used by a sequence of calls: addLayer, load, predict, *)
(* getLoss and train                                                       *)

MaxInputDim == 2   \* largest inputDim of a model built by calls
MaxSize     == 2   \* largest size of a Dense layer added or loaded

\* the values the entries randn draws stand for
Fills == {Num(0), Num(1)}

\* a variant of setInputDim that leaves out the bias row
setInputDimNoBias(d, size, fill) ==
    [r \in 1..d |-> [c \in 1..size |-> fill] \o <<>>] \o <<>>

\* NN.Dense.setInputDim(d): concat(randn(d, size) * scale, randn(1, size) *
\* 0.01, 0), a Matrix of d + 1 rows; every random entry is fill
setInputDim(d, size, fill) ==
    [r \in 1..(d + 1) |-> [c \in 1..size |-> fill] \o <<>>] \o <<>>

\* the argument addLayer gives to setInputDim
PrevSize(lys, dim) == IF Len(lys) > 0 THEN lys[Len(lys)].size ELSE dim

\* model.addLayer(new NN.Dense(size, act))
AddLayer ==
    /\ pc \in {"idle", "done"}
    /\ Len(layers) < MaxLayers
    /\ \E size \in 1..MaxSize, act \in {"none", "relu"}, fill \in Fills :
          /\ heap' = Append(heap, setInputDim(PrevSize(layers, inputDim), size, fill))
          /\ layers' = Append(layers, [size |-> size, activation |-> act,
                                       W |-> Len(heap) + 1])
    /\ UNCHANGED <<inputDim, lossFunction, trainVars, otherVars>>

\* the JSON texts given to load: 1..MaxLayers Dense layers of which the last
\* has no weights, the others the weights addLayer would have made
BareStates ==
    { [inputDim |-> d, lossFunction |-> "SquareLoss",
       layers |-> [l \in 1..n |->
                     [type |-> "Dense", size |-> s,
                      weights |-> IF l = n THEN <<"absent">>
                                  ELSE <<"array", setInputDim(IF l = 1 THEN d ELSE s, s, Num(1))>>]]
                  \o <<>>] :
        d \in 1..MaxInputDim, n \in 1..MaxLayers, s \in 1..MaxSize }

LoadedModel(r) ==
    /\ inputDim' = r.inputDim
    /\ layers' = r.layers
    /\ heap' = r.heap
    /\ lossFunction' = r.lossFunction
    /\ loadResult' = IF r.error = "none" THEN "ok" ELSE r.error

\* model.load(modelState) on the model itself
LoadBare ==
    /\ pc = "idle"
    /\ loadResult = "none"
    /\ \E ms \in BareStates :
          LoadedModel(load([inputDim |-> inputDim, lossFunction |-> lossFunction], ms))
    /\ UNCHANGED <<trainVars, permVars, saved, loaded, evalVars, matVars,
                   taskVars, layerVars, modeVars>>

\* NN.Dense.f on a layer whose W is null: this.setInputDim(x.shape[1]) with
\* the Matrix x the layer is given.  m is the model [heap, layers] after the
\* layers before k received their input.
MaterialiseAt(m, x0, k, fill) ==
    IF m.layers[k].W # Null THEN m
    ELSE [heap   |-> Append(m.heap,
                            setInputDim(Cols(Forward(m.heap, m.layers, x0, k - 1).ls[k]),
                                        m.layers[k].size, fill)),
          layers |-> [m.layers EXCEPT ![k].W = Len(m.heap) + 1]]

RECURSIVE Materialised(_, _, _, _, _)
Materialised(hp, lys, x0, k, fill) ==
    IF k = 0 THEN [heap |-> hp, layers |-> lys]
    ELSE MaterialiseAt(Materialised(hp, lys, x0, k - 1, fill), x0, k, fill)

\* the draws of a forward pass: randn is called only for a layer whose W is
\* null
Draw(lys) == IF \E l \in 1..Len(lys) : lys[l].W = Null THEN Fills ELSE {Num(0)}

\* the getter Matrix.t reads rows[0].length: a TypeError on a Matrix of no
\* rows, which is what predict then throws
Throws(hp, lys, x) ==
    IF Len(StripBias(LastOutput(Forward(hp, lys, PushBias(x), Len(lys))))) = 0
    THEN "TypeError" ELSE "none"

\* the inputs of predict, getLoss and train: n rows of the width of the
\* model
ModelInput(n, d) == [k \in 1..n |-> [c \in 1..d |-> Num((k + c) % 2)] \o <<>>] \o <<>>

ModelInputs(d) == { ModelInput(n, d) : n \in 1..2 }

ModelTargets(n) == { [k \in 1..n |-> <<Num(v)>>] \o <<>> : v \in 1..2 }

PredictEnd(m, x) ==
    /\ heap' = m.heap
    /\ layers' = m.layers
    /\ thrown' = Throws(m.heap, m.layers, x)
    /\ yPred' = IF Throws(m.heap, m.layers, x) = "none"
                THEN predict(m.heap, m.layers, x) ELSE <<>>

\* model.predict(x)
Predict ==
    /\ pc \in {"idle", "done"}
    /\ \E x \in ModelInputs(inputDim), fill \in Draw(layers) :
          /\ evalX' = BiasPushed(x, PredictRows(SharedRows(x)))
          /\ PredictEnd(Materialised(heap, layers, PushBias(x), Len(layers), fill), x)
    /\ evalY' = <<>>
    /\ totalLoss' = JSNull
    /\ UNCHANGED <<inputDim, lossFunction, trainVars, permVars, storeVars, matVars,
                   taskVars, layerVars, modeVars>>

GetLossEnd(m, x, y) ==
    /\ heap' = m.heap
    /\ layers' = m.layers
    /\ thrown' = Throws(m.heap, m.layers, x)
    /\ totalLoss' = IF Throws(m.heap, m.layers, x) = "none"
                    THEN getLoss(m.heap, m.layers, x, y) ELSE JSNull
    /\ GetLossMode(Throws(m.heap, m.layers, x))

\* model.getLoss(x, y) on a dataset of one batch
EvalModel ==
    /\ pc \in {"idle", "done"}
    /\ \E x \in ModelInputs(inputDim), fill \in Draw(layers) :
       \E y \in ModelTargets(Len(x)) :
          /\ evalX' = BiasPushed(x, GetLossRows(x, CeilDiv(Len(x), GetLossBatchSize)))
          /\ evalY' = y
          /\ GetLossEnd(Materialised(heap, layers, PushBias(x), Len(layers), fill), x, y)
    /\ yPred' = <<>>
    /\ UNCHANGED <<inputDim, lossFunction, trainVars, permVars, storeVars, matVars,
                   taskVars, layerVars>>

\* model.train(x, y, options) for one epoch on one row of target 1, on a model whose
\* layers all have weights
TrainModel ==
    /\ pc = "idle"
    /\ Len(layers) > 0
    /\ \A l \in 1..Len(layers) : layers[l].W # Null
    /\ Begin(ModelInput(1, inputDim), << <<Num(1)>> >>, JSNull, JSNull, PlainOptions(1))

ModelInit ==
    /\ inputDim \in 1..MaxInputDim
    /\ lossFunction = "SquareLoss"
    /\ heap = <<>>
    /\ layers = <<>>
    /\ NoTrain /\ NoPerm /\ NoStore /\ NoEval /\ NoMat

NextModel ==
    \/ AddLayer \/ LoadBare \/ Predict \/ EvalModel \/ TrainModel
    \/ EpochBegin \/ Batch \/ EpochEnd \/ Resume \/ Finish

SpecModel == ModelInit /\ [][NextModel]_vars

----------------------------------------------------------------------------
(* Calls on GV matrices: the element-wise operations, the product, the     *)
(* constructor and the operations that change a Matrix in place            *)

MaxDim == 2   \* most rows and most columns of an operand

\* a Matrix of r rows and c columns whose entries are all v
Filled(r, c, v) == [a \in 1..r |-> [b \in 1..c |-> Num(v)] \o <<>>] \o <<>>

Operands == { Filled(r, c, v) : r \in 1..MaxDim, c \in 1..MaxDim, v \in 1..2 }

\* m2[i][j] with m2[i] undefined: the TypeError addMatrix and multiplyMatrix
\* throw when m1 has more rows than m2
RowMissing(m1, m2) == Len(m1) > Len(m2) /\ Cols(m1) > 0

\* GV.addMatrix(m1, m2): element-wise over the shape of m1; an entry m2
\* lacks reads as undefined and gives NaN
addMatrix(m1, m2) ==
    [a \in 1..Len(m1) |->
        [b \in 1..Cols(m1) |->
            IF b <= Len(m2[a]) THEN NAdd(m1[a][b], m2[a][b]) ELSE NaN] \o <<>>] \o <<>>

Returned2(name, v) == [op |-> name, arg |-> "Matrix", error |-> "none", value |-> v]

Thrown2(name, e) == [op |-> name, arg |-> "Matrix", error |-> e, value |-> <<>>]

\* GV.subtractMatrix(matA, matB)
Subtract ==
    /\ matOut' = Returned2("subtractMatrix", subtractMatrix(matA, matB))
    /\ UNCHANGED <<matA, matB>>

\* GV.addMatrix(matA, matB)
Add ==
    /\ matOut' = IF RowMissing(matA, matB) THEN Thrown2("addMatrix", "TypeError")
                 ELSE Returned2("addMatrix", addMatrix(matA, matB))
    /\ UNCHANGED <<matA, matB>>

\* GV.multiplyMatrix(matA, matB)
Multiply ==
    /\ matOut' = IF RowMissing(matA, matB) THEN Thrown2("multiplyMatrix", "TypeError")
                 ELSE Returned2("multiplyMatrix", multiplyMatrix(matA, matB))
    /\ UNCHANGED <<matA, matB>>

\* GV.mult(matA, matB)
MatMul ==
    /\ matOut' = Returned2("mult", mult(matA, matB))
    /\ UNCHANGED <<matA, matB>>

\* the four operations are called on Matrix objects whose rows are of one
\* length
Rectangular(m) == \A a \in 1..Len(m) : Len(m[a]) = Len(m[1])

Binary ==
    /\ matOut.value # "object"
    /\ Rectangular(matA)
    /\ Subtract \/ Add \/ Multiply \/ MatMul
    /\ UNCHANGED <<modelVars, trainVars, permVars, storeVars, evalVars,
                   taskVars, layerVars, modeVars>>

\* the arguments given to new GV.Matrix: rows of one length, rows of
\* different lengths, a number, a string
JaggedRows ==
    { << <<Num(1), Num(1)>>, <<Num(1)>> >>, << <<Num(1)>>, <<Num(1), Num(1)>> >> }

ConstructorArgs ==
    { [kind |-> "rows", val |-> m] : m \in Operands }
        \cup { [kind |-> "jagged", val |-> m] : m \in JaggedRows }
        \cup { [kind |-> "number", val |-> n] : n \in 1..MaxDim }
        \cup { [kind |-> "string", val |-> "abc"] }

\* new GV.Matrix(arg): the rows of the Matrix made; no argument makes the
\* constructor throw.  For an argument that is no Array and no number the
\* constructor returns null, so that new gives the bare object, without
\* rows
MatrixRows(arg) ==
    IF arg.kind = "number" THEN Filled(arg.val, arg.val, 0)
    ELSE IF arg.kind = "string" THEN <<>>
    ELSE arg.val

MatrixMade(arg) ==
    [op |-> "Matrix", arg |-> arg.kind, error |-> "none",
     value |-> IF arg.kind = "string" THEN "object" ELSE "Matrix"]

\* matA = new GV.Matrix(arg)
Construct ==
    /\ \E arg \in ConstructorArgs :
          /\ matA' = MatrixRows(arg)
          /\ matOut' = MatrixMade(arg)
    /\ UNCHANGED matB

\* GV.MatrixPrototype.pushRow(row): refused when the length of row is not
\* the column count
pushRow(m, row) ==
    IF Len(m) > 0 /\ Len(row) # Len(m[1]) THEN m ELSE Append(m, row)

\* GV.MatrixPrototype.pushColumn(column): refused when the length of column
\* is not the row count; on a Matrix of no rows the first entry becomes the
\* one row
pushColumn(m, column) ==
    IF Len(m) > 0 /\ Len(column) # Len(m) THEN m
    ELSE IF Len(m) = 0 THEN << <<column[1]>> >>
    ELSE [a \in 1..Len(m) |-> Append(m[a], column[a])] \o <<>>

\* matA[k] = row through the set trap of the proxy, k 0-based: the row is
\* replaced when k is an index of rows, whatever its length
SetRow(m, k, row) == IF k >= 0 /\ k < Len(m) THEN [m EXCEPT ![k + 1] = row] ELSE m

\* the Arrays given as a row or a column
Arrays == { [a \in 1..n |-> Num(1)] \o <<>> : n \in 1..MaxDim }

Changed(name, m) ==
    /\ matA' = m
    /\ matOut' = [op |-> name, arg |-> "Array", error |-> "none", value |-> "undefined"]
    /\ UNCHANGED matB

\* matA.pushRow(row), matA.pushColumn(column), matA[k] = row
Change ==
    /\ matOut.value # "object"
    /\ Len(matA) <= MaxDim
    /\ \A a \in 1..Len(matA) : Len(matA[a]) <= MaxDim
    /\ \E arr \in Arrays :
          \/ Changed("pushRow", pushRow(matA, arr))
          \/ Changed("pushColumn", pushColumn(matA, arr))
          \/ \E k \in 0..MaxDim : Changed("set", SetRow(matA, k, arr))

InPlace ==
    /\ Construct \/ Change
    /\ UNCHANGED <<modelVars, trainVars, permVars, storeVars, evalVars,
                   taskVars, layerVars, modeVars>>

MatrixInit ==
    /\ inputDim = 1
    /\ lossFunction = "SquareLoss"
    /\ heap = <<>>
    /\ layers = <<>>
    /\ matA \in Operands
    /\ matB \in Operands
    /\ matOut = NoCall
    /\ NoTrain /\ NoPerm /\ NoStore /\ NoEval

NextMatrix == Binary \/ InPlace

SpecMatrix == MatrixInit /\ [][NextMatrix]_vars

\* ---------------------------------------------------------------------------
\* Two train calls in flight on one model (nn.js 1473-1493).  startTraining
\* awaits in two places only, both after trainEpoch has returned: the await of
\* trainEpoch's promise (1476) and the await of the zero-delay timer (1480);
\* trainEpoch holds no await.  The host runs another task only while the
\* running one waits at an await or has returned.
\* ---------------------------------------------------------------------------

\* the largest maxEpochs given to the two calls
MaxTaskEpochs == 2

\* the arguments of the two calls: one or two rows, without or with a
\* validation row, one or two epochs
TaskRuns ==
    { [x |-> TrainInputs(n), y |-> [k \in 1..n |-> <<Num(1)>>] \o <<>>,
       xv |-> IF hasVal THEN ValInputs ELSE JSNull,
       yv |-> IF hasVal THEN << <<Num(1)>> >> ELSE JSNull,
       opt |-> PlainOptions(m)] :
        n \in 1..2, hasVal \in BOOLEAN, m \in 1..MaxTaskEpochs }

\* the running call waits at one of the awaits of startTraining, or has returned
YieldedInBatches == pc \in {"yield", "done", "batch"}
Yielded == pc \in {"yield", "done"}

\* the arguments and locals of the running call
Locals ==
    [xTrain |-> xTrain, yTrain |-> yTrain, xValidation |-> xValidation,
     yValidation |-> yValidation, opt |-> opt, pc |-> pc, i |-> i, j |-> j,
     lr |-> lr, loss |-> loss, valLoss |-> valLoss, batchLoss |-> batchLoss,
     trainLosses |-> trainLosses, validationLosses |-> validationLosses,
     weightHistory |-> weightHistory, bestValLoss |-> bestValLoss,
     patienceCounter |-> patienceCounter, indices |-> indices, state |-> state,
     promise |-> promise, outcome |-> outcome]

\* the host continues the call whose locals are c
Continue(c) ==
    /\ xTrain' = c.xTrain /\ yTrain' = c.yTrain
    /\ xValidation' = c.xValidation /\ yValidation' = c.yValidation
    /\ opt' = c.opt /\ pc' = c.pc /\ i' = c.i /\ j' = c.j
    /\ lr' = c.lr /\ loss' = c.loss /\ valLoss' = c.valLoss
    /\ batchLoss' = c.batchLoss
    /\ trainLosses' = c.trainLosses /\ validationLosses' = c.validationLosses
    /\ weightHistory' = c.weightHistory /\ bestValLoss' = c.bestValLoss
    /\ patienceCounter' = c.patienceCounter /\ indices' = c.indices
    /\ state' = c.state /\ promise' = c.promise /\ outcome' = c.outcome

\* the locals of a call that has just entered train (1200-1254)
Entered(r) ==
    [xTrain |-> r.x, yTrain |-> r.y, xValidation |-> r.xv, yValidation |-> r.yv,
     opt |-> r.opt, pc |-> "loop", i |-> 0, j |-> 0,
     lr |-> r.opt.lr, loss |-> JSNull, valLoss |-> JSNull, batchLoss |-> JSNull,
     trainLosses |-> <<>>, validationLosses |-> <<>>,
     weightHistory |-> <<>>, bestValLoss |-> PInf,
     patienceCounter |-> 0, indices |-> <<>>,
     state |-> [epoch |-> 0, batches |-> 0, checkpoints |-> <<>>],
     promise |-> "pending", outcome |-> "running"]

\* the first train call on the model
TrainFirst ==
    /\ pc = "idle"
    /\ \E r \in TaskRuns : Begin(r.x, r.y, r.xv, r.yv, r.opt)

\* another task calls train on the same model while the first call is in
\* flight or has returned: the first call's locals wait for the host
TrainSecond ==
    /\ cur = 1 /\ parked = <<>>
    /\ pc # "idle"
    /\ Yielded
    /\ \E r \in TaskRuns :
          /\ Continue(Entered(r))
          /\ fsLog' \in MkDir(r.opt)
    /\ cur' = 2
    /\ parked' = <<Locals>>
    /\ UNCHANGED <<modelVars, shuffled, evalWeights, epochBatches, calls, updates,
                   passes, permVars, storeVars, evalVars, matVars, layerVars,
                   modeVars>>

\* the host hands the thread to the other call, which waited at an await
Switch ==
    /\ parked # <<>>
    /\ Yielded
    /\ parked[1].pc = "yield"
    /\ Continue(parked[1])
    /\ cur' = 3 - cur
    /\ parked' = <<Locals>>
    /\ UNCHANGED <<modelVars, histVars, permVars, storeVars, evalVars, matVars,
                   layerVars, modeVars>>

NextTasks ==
    \/ TrainFirst \/ TrainSecond \/ Switch
    \/ EpochBegin \/ Batch \/ EpochEnd \/ Resume \/ Finish

SpecTasks == Init /\ [][NextTasks]_vars

\* ---------------------------------------------------------------------------
\* Calls made on one Dense layer directly: updateWeights, setWeights and
\* getWeights of NN.LayerProto (nn.js 396-418)
\* ---------------------------------------------------------------------------

\* the number of calls made on the layer
MaxCalls == 2

\* the weight matrices of a layer of one unit on one input: a weight row and
\* the bias row
LayerWeights == { << <<Num(a)>>, <<Num(b)>> >> : a \in 0..1, b \in 0..1 }

\* the gradients given to updateWeights: of the shape of W, or of no rows
\* (a missing gradient, undefined or null, is refused by the same test)
Gradients ==
    { << <<Num(a)>>, <<Num(b)>> >> : a \in {-1, 0, 2}, b \in {-1, 0, 2} } \cup {<<>>}

Rates == {Num(1), Frac(1, 2)}

\* layer.updateWeights(dW, lr): the object this.W is changed, this.W is not
\* assigned
UpdateWeightsCall ==
    /\ layerCall.n < MaxCalls
    /\ \E dW \in Gradients, rate \in Rates :
          /\ heap' = [heap EXCEPT ![getWeights(layers[1])] =
                         updateWeights(heap[getWeights(layers[1])], dW, rate)]
          /\ layerCall' = [n |-> layerCall.n + 1, op |-> "updateWeights", dW |-> dW, lr |-> rate]
    /\ UNCHANGED <<inputDim, layers, lossFunction, trainVars, permVars, storeVars,
                   evalVars, matVars, taskVars, modeVars>>

\* layer.setWeights(weights) with a Matrix the caller has made: this.W is
\* assigned
SetWeightsCall ==
    /\ layerCall.n < MaxCalls
    /\ \E m \in LayerWeights :
          /\ heap' = Append(heap, m)
          /\ layers' = [layers EXCEPT ![1] = setWeights(@, Len(heap) + 1)]
          /\ layerCall' = [n |-> layerCall.n + 1, op |-> "setWeights", weights |-> Len(heap) + 1]
    /\ UNCHANGED <<inputDim, lossFunction, trainVars, permVars, storeVars,
                   evalVars, matVars, taskVars, modeVars>>

LayerInit ==
    /\ inputDim = 1
    /\ lossFunction = "SquareLoss"
    /\ \E w \in LayerWeights :
          /\ heap = <<w>>
          /\ layers = << [size |-> 1, activation |-> "none", W |-> 1] >>
    /\ NoTrain /\ NoPerm /\ NoStore /\ NoEval /\ NoMat

NextLayer == UpdateWeightsCall \/ SetWeightsCall

SpecLayer == LayerInit /\ [][NextLayer]_vars

\* ---------------------------------------------------------------------------
\* Training mode and inference mode: train with and without validation data,
\* getLoss, and setTrainingMode called by the user between them
\* ---------------------------------------------------------------------------

\* model.setTrainingMode(v)
SetMode ==
    /\ pc \in {"idle", "done"}
    /\ layerCall.n < MaxCalls
    /\ \E v \in BOOLEAN :
          /\ isTraining' = setTrainingMode(isTraining, v)
          /\ layerCall' = [n |-> layerCall.n + 1, op |-> "setTrainingMode", isTraining |-> v]
    /\ UNCHANGED <<modelVars, trainVars, permVars, storeVars, evalVars, matVars,
                   taskVars, passMode>>

NextMode ==
    \/ TrainFirst \/ EpochBegin \/ Batch \/ EpochEnd \/ Resume \/ Finish
    \/ SetMode \/ EvalModel

SpecMode == Init /\ [][NextMode]_vars

\* ---------------------------------------------------------------------------
\* The caller's matrices: train with and without validation data, then
\* predict and getLoss on the trained model
\* ---------------------------------------------------------------------------
NextFrame ==
    \/ TrainFirst \/ EpochBegin \/ Batch \/ EpochEnd \/ Resume \/ Finish
    \/ Predict \/ EvalModel

SpecFrame == Init /\ [][NextFrame]_vars
----------------------------------------------------------------------------
(* The claims of the specification, C1 - C10 *)

\* C1: when early stopping has ended train, every layer holds the weights it
\* had at the validation evaluation that gave the lowest validation loss
\* (the first such evaluation), not those of the epochs trained after it.
C1_RestoresBestWeights ==
    outcome = "earlyStopped" =>
        WeightValues = evalWeights[argmin(validationLosses) + 1]

\* C2: at every validation evaluation the loss is an improvement exactly when
\* it is below the best loss so far minus earlyStoppingMinDelta; an
\* improvement sets the patience counter to 0 and records the loss as the
\* best, any other evaluation adds one to the counter; the run ends at the
\* evaluation that brings the counter to earlyStoppingPatience, without a
\* weight update in that epoch, an early stop happens at no other moment,
\* and no step is ever taken once the run has ended.
C2_EarlyStoppingRule ==
    [][ /\ pc # "done"
        /\ Len(validationLosses') = Len(validationLosses) + 1 =>
              LET vl     == validationLosses'[Len(validationLosses')]
                  better == NLt(vl, NSub(bestValLoss, opt.earlyStoppingMinDelta))
              IN  /\ patienceCounter' = (IF better THEN 0 ELSE patienceCounter + 1)
                  /\ bestValLoss' = (IF better THEN vl ELSE bestValLoss)
                  /\ patienceCounter < opt.earlyStoppingPatience
                  /\ patienceCounter' >= opt.earlyStoppingPatience =>
                        pc' = "done" /\ updates' = updates
        /\ (outcome' = "earlyStopped" /\ outcome # "earlyStopped") =>
              /\ Len(validationLosses') = Len(validationLosses) + 1
              /\ patienceCounter' = opt.earlyStoppingPatience
      ]_vars

\* C2 witness: a run stopped early at its 4th evaluation, the 2nd one having
\* been the best, with patience 2
C2_Witness ==
    /\ outcome = "earlyStopped"
    /\ Len(validationLosses) = 4
    /\ argmin(validationLosses) = 1
    /\ opt.earlyStoppingPatience = 2
    /\ patienceCounter = 2

\* C3: once a training batch has given the loss NaN the run has ended there:
\* the promise is rejected, onBatchEnd was not called for that batch nor
\* onEpochEnd for that epoch, no loss was recorded for the epoch, and the
\* batches processed are exactly those up to that batch.
C3_NaNAborts ==
    batchLoss = NaN =>
        /\ pc = "done"
        /\ promise = "rejected"
        /\ outcome = "nanAbort"
        /\ \A k \in 1..Len(calls) :
              /\ calls[k] # <<"onBatchEnd", i, j>>
              /\ ~(calls[k][1] = "onEpochEnd" /\ calls[k][2] = i)
        /\ Len(trainLosses) = i
        /\ state.batches = i * CeilDiv(Len(xTrain), opt.batchSize) + j + 1
        /\ updates = state.batches

\* C3 witness: a NaN batch loss met after at least one batch had gone well
C3_Witness ==
    /\ batchLoss = NaN
    /\ outcome = "nanAbort"
    /\ state.batches >= 2

\* C4: once a training batch has given the loss +Infinity or -Infinity the
\* run has ended there with a rejected promise, as for NaN.
C4_InfinityAborts ==
    batchLoss \in {PInf, NInf} => pc = "done" /\ promise = "rejected"

\* C5: after load(save(m)) the loaded model has the input dimension of m,
\* as many layers, each with the size, the weight matrix and the activation
\* of the layer of m, the loss-function type of m, and the predictions of m.
C5_RoundTrip ==
    loadResult # "none" =>
        /\ loadResult = "ok"
        /\ loaded[1].inputDim = inputDim
        /\ Len(loaded[1].layers) = Len(layers)
        /\ \A l \in 1..Len(layers) :
              /\ loaded[1].layers[l].size = layers[l].size
              /\ loaded[1].layers[l].activation = layers[l].activation
              /\ loaded[1].layers[l].W # Null
              /\ loaded[1].heap[loaded[1].layers[l].W] = heap[layers[l].W]
        /\ loaded[1].lossFunction = lossFunction
        /\ \A v \in -1..1 :
              predict(loaded[1].heap, loaded[1].layers, << <<Num(v)>> >>)
                 = predict(heap, layers, << <<Num(v)>> >>)

\* C6: Model.getLoss(x, y) is the mean over all examples of the loss of each
\* example, 1/2 (y - prediction)^2 for the one output of the model.
C6_DatasetMean ==
    totalLoss # JSNull =>
        totalLoss =
            NDiv(SumSeq([k \in 1..Len(evalX) |->
                            NMul(Frac(1, 2),
                                 sum(pow2(subtractMatrix(
                                        << evalY[k] >>,
                                        Transpose(predict(heap, layers, << evalX[k] >>))))))]
                        \o <<>>),
                 Num(Len(evalX)))

\* C7: a run that has ended is early-stopped, aborted on a NaN loss or at
\* maxEpochs, after at most maxEpochs epochs; without validation data and
\* without a NaN loss it trained exactly maxEpochs epochs and trainLosses has
\* maxEpochs entries.
C7_Outcomes ==
    pc = "done" =>
        /\ outcome \in {"earlyStopped", "nanAbort", "maxEpochs"}
        /\ i <= opt.maxEpochs
        /\ (xValidation = JSNull /\ outcome # "nanAbort") =>
              /\ i = opt.maxEpochs
              /\ Len(trainLosses) = opt.maxEpochs

\* C8: within an epoch every batch holds between 1 and batchSize rows, the
\* target row of each being the one of the same index, no row is in two
\* batches, and one weight update is made per batch; when the epoch is over
\* there are ceil(n / batchSize) batches and every row is in one of them.
C8_BatchesPartition ==
    /\ updates = state.batches
    /\ pc \in {"batch", "yield"} =>
          /\ state.batches = i * CeilDiv(Len(xTrain), opt.batchSize) + Len(epochBatches)
          /\ \A b \in 1..Len(epochBatches) :
                /\ Len(epochBatches[b].x) \in 1..opt.batchSize
                /\ epochBatches[b].y = epochBatches[b].x
          /\ \A b1, b2 \in 1..Len(epochBatches) :
             \A k1 \in 1..Len(epochBatches[b1].x), k2 \in 1..Len(epochBatches[b2].x) :
                epochBatches[b1].x[k1] = epochBatches[b2].x[k2] => (b1 = b2 /\ k1 = k2)
    /\ pc = "yield" =>
          /\ Len(epochBatches) = CeilDiv(Len(xTrain), opt.batchSize)
          /\ \A r \in 1..Len(xTrain) :
             \E b \in 1..Len(epochBatches) :
             \E k \in 1..Len(epochBatches[b].x) : epochBatches[b].x[k] = r

\* C8 witness: an epoch over 3 rows in batches of 2 is complete, its last
\* batch holding one row
C8_Witness ==
    /\ pc = "yield"
    /\ Len(xTrain) = 3
    /\ opt.batchSize = 2
    /\ Len(epochBatches) = 2
    /\ Len(epochBatches[2].x) = 1

\* C9: batch number b of an epoch holds the training rows, and the target
\* rows, whose indices the permutation drawn for the epoch has at the
\* positions (b-1)*batchSize .. b*batchSize-1.
C9_PermutationOrder ==
    pc = "batch" =>
        \A b \in 1..Len(epochBatches) :
        \A k \in 1..Len(epochBatches[b].x) :
            /\ epochBatches[b].x[k] = shuffled[(b - 1) * opt.batchSize + k] + 1
            /\ epochBatches[b].y[k] = shuffled[(b - 1) * opt.batchSize + k] + 1

\* C10: randomPermutation returns a Vector other than its argument, holding
\* every value as often as the argument holds it (for the index Vector
\* 0..n-1 each index once), and the argument keeps its values.
C10_Permutation ==
    permOut # Null =>
        /\ permOut # permIn
        /\ vectors[permIn] = permBefore
        /\ Len(vectors[permOut]) = Len(permBefore)
        /\ \A v \in 0..2 :
              Cardinality({k \in 1..Len(permBefore) : vectors[permOut][k] = v})
                 = Cardinality({k \in 1..Len(permBefore) : permBefore[k] = v})

\* C10 witness: the index Vector 0, 1, 2 came back in another order
C10_Witness ==
    /\ permOut # Null
    /\ permBefore = <<0, 1, 2>>
    /\ vectors[permOut] # permBefore

\* C11: onBatchEnd and onEpochEnd are notifications only.  In every run,
\* whether the callbacks are registered or not and whatever they return, a
\* step of the batch loop leaves the weights, the batch loss and the epoch
\* loss that the forward and backward pass of the batch give and goes on to
\* the next batch unless the loss is NaN; the end of an epoch records the
\* mean batch loss and training goes on with the next epoch; a callback
\* never changes the weights, the losses or the way the run ends.
C11_CallbacksNotifyOnly ==
    [][ /\ (pc = "batch" /\ j < batchPerEpoch) =>
              /\ heap' = BatchResult.heap
              /\ batchLoss' = BatchResult.batchLoss
              /\ updates' = updates + 1
              /\ <<trainLosses', validationLosses', lr'>> = <<trainLosses, validationLosses, lr>>
              /\ IF isNaN(batchLoss')
                 THEN pc' = "done" /\ outcome' = "nanAbort"
                 ELSE /\ pc' = "batch" /\ j' = j + 1 /\ outcome' = "running"
                      /\ loss' = NAdd(loss, batchLoss')
        /\ (pc = "batch" /\ j = batchPerEpoch) =>
              /\ pc' = "yield" /\ outcome' = "running"
              /\ trainLosses' = Append(trainLosses, NDiv(loss, Num(batchPerEpoch)))
              /\ <<heap', layers', validationLosses', updates'>>
                    = <<heap, layers, validationLosses, updates>>
        /\ pc = "yield" =>
              /\ pc' = "loop" /\ i' = i + 1 /\ outcome' = "running"
              /\ <<heap', layers', trainLosses', validationLosses', updates'>>
                    = <<heap, layers, trainLosses, validationLosses, updates>>
        /\ (calls' # calls) => (pc = "batch" /\ Len(calls') = Len(calls) + 1)
      ]_vars

\* C11 witness: a run with both callbacks registered and returning false
\* has trained its two epochs to the end
C11_Witness ==
    /\ outcome = "maxEpochs"
    /\ opt.callbacks = [onBatchEnd |-> "false", onEpochEnd |-> "false"]
    /\ Len(calls) = 6
    /\ Len(trainLosses) = 2
    /\ updates = 4

C13_ClippedGradients ==
    [][ (pc = "batch" /\ j < batchPerEpoch /\ IsFinite(lr) /\ lr # Num(0)) =>
          IF NGt(opt.gradientClipping, Num(0))
          THEN \A l \in 1..Len(layers) :
                  NGe(NMul(opt.gradientClipping, opt.gradientClipping),
                      sum(pow2(scale(subtractMatrix(heap[layers[l].W], heap'[layers[l].W]),
                                     NDiv(Num(1), lr)))))
          ELSE LET cl == computeLayers(heap, layers, BatchRows(xTrain), BatchRows(yTrain))
               IN  heap' = modelUpdateWeights(heap, layers, lr, cl.layers,
                                              cl.derivatives, opt.batchSize,
                                              opt.momentum, opt.weightDecay, <<>>)
      ]_vars

\* C14: after train has started the learning rate changes only in the step
\* that begins an epoch, before the batches of the epoch, and becomes the
\* value of the schedule for the 0-based epoch i: initialLr / (1 + 0.0001 i)
\* for 'decay'; for 'step' a tenth of it when i > 0 is a multiple of 10 and
\* the same value otherwise; else lr * lrDecay.  Every batch of the epoch
\* updates the weights with that rate and leaves it as it is.
C14_LearningRateSchedule ==
    [][ /\ (pc # "idle" /\ lr' # lr) => (pc = "loop" /\ i < opt.maxEpochs)
        /\ (pc = "loop" /\ i < opt.maxEpochs) =>
              lr' = IF opt.lrSchedule = "decay"
                      THEN NDiv(opt.lr, NAdd(Num(1), Frac(i, 10000)))
                    ELSE IF opt.lrSchedule = "step"
                      THEN (IF i > 0 /\ i % 10 = 0 THEN NDiv(lr, Num(10)) ELSE lr)
                    ELSE NMul(lr, opt.lrDecay)
        /\ (pc = "batch" /\ j < batchPerEpoch) =>
              /\ lr' = lr
              /\ heap' = trainBatch(heap, layers, BatchRows(xTrain), BatchRows(yTrain),
                                    lr, opt).heap
      ]_vars

\* C14 witness: under 'step' the batches of epoch 10 run at a tenth of the
\* initial rate, after those of epochs 0..9 ran at the initial rate
C14_Witness ==
    /\ pc = "batch" /\ i = 10 /\ j = 1
    /\ opt.lrSchedule = "step"
    /\ opt.lr = Num(1) /\ lr = Frac(1, 10)
    /\ Len(trainLosses) = 10

C16_WeightShape ==
    loadResult = "none" =>
        \A l \in 1..Len(layers) :
            /\ layers[l].W # Null
            /\ Len(heap[layers[l].W]) = (IF l = 1 THEN inputDim ELSE layers[l - 1].size) + 1
            /\ \A r \in 1..Len(heap[layers[l].W]) :
                  Len(heap[layers[l].W][r]) = layers[l].size

\* C16 witness: a model of inputDim 2 with layers of sizes 2 and 1, added
\* one before and one after a train run that changed the weights of the
\* first, on which getLoss has been called since
C16_Witness ==
    /\ loadResult = "none"
    /\ pc = "done" /\ updates >= 1
    /\ inputDim = 2
    /\ Len(layers) = 2 /\ layers[1].size = 2 /\ layers[2].size = 1
    /\ heap[layers[1].W] \notin { setInputDim(2, 2, f) : f \in Fills }
    /\ evalY # <<>> /\ totalLoss # JSNull
    /\ Len(heap[layers[1].W]) = 3 /\ Len(heap[layers[2].W]) = 3

\* C17: when a predict or getLoss call gives input to a Dense layer that has
\* no weights yet, the weight matrix the layer makes has as many rows as the
\* bias-augmented input it is given has columns, that is d + 1 for the
\* layer's input dimension d, the call does not throw, and the output of the
\* layer has one row per input row and size columns.
C17_LazyWeights ==
    [][ \A l \in 1..Len(layers) :
          ( /\ Len(layers') = Len(layers)
            /\ layers[l].W = Null /\ layers'[l].W # Null )
          => /\ Len(heap'[layers'[l].W])
                  = Cols(Forward(heap', layers', PushBias(evalX'), l - 1).ls[l])
             /\ Len(heap'[layers'[l].W])
                  = (IF l = 1 THEN inputDim ELSE layers[l - 1].size) + 1
             /\ thrown' = "none"
             /\ Rows(DenseF(heap'[layers'[l].W], layers'[l],
                            Forward(heap', layers', PushBias(evalX'), l - 1).ls[l])[1])
                  = Len(evalX')
             /\ Cols(DenseF(heap'[layers'[l].W], layers'[l],
                            Forward(heap', layers', PushBias(evalX'), l - 1).ls[l])[1])
                  = layers[l].size
      ]_vars

\* C18: an element-wise subtraction, addition or multiplication of two
\* matrices of different shapes, and a product of A and B where A has not as
\* many columns as B has rows, ends in an error and returns no value.
C18_ShapeMismatch ==
    ( \/ /\ matOut.op \in {"subtractMatrix", "addMatrix", "multiplyMatrix"}
          /\ (Rows(matA) # Rows(matB) \/ Cols(matA) # Cols(matB))
      \/ /\ matOut.op = "mult"
          /\ Cols(matA) # Rows(matB) )
    => (matOut.error # "none" /\ matOut.value = <<>>)

\* C19: the rows of a Matrix object are of one length in every state:
\* new Matrix on rows of different lengths or on a value that is no sequence
\* ends in an InvalidConstruction error and makes no Matrix, and pushRow,
\* pushColumn and the assignment of a row by index leave the rows of one
\* length.
C19_RowsOfOneLength ==
    /\ (matOut.op = "Matrix" /\ matOut.arg \in {"jagged", "string"})
          => matOut.error = "InvalidConstruction"
    /\ matOut.value # "object" => Rectangular(matA)

\* C20: a step of train in which fs.mkdirSync or fs.writeFileSync is called
\* goes on in the one way the state before it determines, whether the call
\* returned or threw: the run is not ended, and the weights, the losses and
\* the epoch are the ones of the step.  The path of a write is listed in
\* state.checkpoints exactly when the write returned, nothing else lists a
\* path, and with checkpointFrequency = 0 no call on fs is made.
C20_CheckpointFailures ==
    [][ /\ (pc' # "idle" /\ opt'.checkpointFrequency = 0) => fsLog' = <<>>
        /\ fsLog' = fsLog => state'.checkpoints = state.checkpoints
        /\ fsLog' # fsLog =>
              /\ Len(fsLog') = Len(fsLog) + 1
              /\ state'.checkpoints =
                    IF fsLog'[Len(fsLog')].call = "writeFileSync" /\ fsLog'[Len(fsLog')].ok
                    THEN Append(state.checkpoints, fsLog'[Len(fsLog')].path)
                    ELSE state.checkpoints
              /\ heap' = heap /\ layers' = layers /\ i' = i
              /\ pc = "idle" =>
                    pc' = "loop" /\ outcome' = "running" /\ promise' = "pending"
              /\ pc = "loop" =>
                    /\ pc' = "batch" /\ outcome' = outcome /\ promise' = promise
                    /\ validationLosses' =
                          Append(validationLosses,
                                 ValidationLoss(heap, layers, xValidation, yValidation,
                                                opt.batchSize))
                    /\ bestValLoss' = valLoss' /\ patienceCounter' = 0
                    /\ trainLosses' = trainLosses
              /\ pc = "batch" =>
                    /\ pc' = "yield" /\ outcome' = outcome /\ promise' = promise
                    /\ trainLosses' = Append(trainLosses, NDiv(loss, Num(batchPerEpoch)))
                    /\ validationLosses' = validationLosses
              /\ pc \in {"idle", "loop", "batch"}
      ]_vars

\* C20 witness: a run of two epochs has ended at maxEpochs although the
\* directory could not be made and a write failed; a later write succeeded
\* and only its path is listed
C20_Witness ==
    /\ pc = "done" /\ outcome = "maxEpochs"
    /\ Len(trainLosses) = 2 /\ updates = 2
    /\ Len(fsLog) = 3
    /\ fsLog[1].call = "mkdirSync" /\ ~fsLog[1].ok
    /\ fsLog[2].call = "writeFileSync" /\ ~fsLog[2].ok
    /\ fsLog[3].ok
    /\ state.checkpoints = << fsLog[3].path >>

\* ---------------------------------------------------------------------------
\* C21: train yields to the host only between epochs.  A call that waits has
\* returned from trainEpoch (it waits at an await of startTraining) or has
\* ended; the thread changes hands only when the running call is between
\* epochs or has ended; every step taken inside an epoch (the validation pass,
\* the batches, the end of the epoch) belongs to the running call and leaves
\* the waiting call as it is; the weights change only in a batch or in the
\* validation step of the running call; and the epoch index of a call moves
\* by one, at the timer only.
\* ---------------------------------------------------------------------------
InEpoch == pc = "batch" \/ (pc = "loop" /\ i < opt.maxEpochs)

C21_WholeEpochs ==
    [][ /\ parked # <<>> => parked[1].pc \in {"yield", "done"}
        /\ cur' # cur => pc \in {"yield", "done"}
        /\ (pc # "idle" /\ InEpoch) => (cur' = cur /\ parked' = parked)
        /\ (heap' # heap \/ layers' # layers) => (pc # "idle" /\ InEpoch /\ cur' = cur)
        /\ (cur' = cur /\ pc # "idle") =>
              (i' = i \/ (i' = i + 1 /\ pc = "yield" /\ pc' = "loop")) ]_vars

\* two calls on the model whose epochs interleaved: the second call has run
\* an epoch, the first call runs a batch of a later epoch, and both have
\* changed the weights
C21_Witness ==
    /\ cur = 1 /\ parked # <<>>
    /\ pc = "batch" /\ i = 1
    /\ parked[1].pc = "yield" /\ Len(parked[1].trainLosses) = 1
    /\ updates >= 3

C23_UpdateInPlace ==
    [][ /\ (layerCall'.n = layerCall.n + 1 /\ layerCall'.op = "updateWeights") =>
              /\ getWeights(layers'[1]) = getWeights(layers[1])
              /\ Len(heap') = Len(heap)
              /\ \A h \in 1..Len(heap) : h # getWeights(layers[1]) => heap'[h] = heap[h]
              /\ Len(layerCall'.dW) = 0 => heap' = heap
              /\ Len(layerCall'.dW) > 0 =>
                    \A a \in 1..2 :
                       heap'[getWeights(layers[1])][a][1] =
                          NSub(heap[getWeights(layers[1])][a][1],
                               NMul(layerCall'.lr, layerCall'.dW[a][1]))
        /\ (layerCall'.n = layerCall.n + 1 /\ layerCall'.op = "setWeights") =>
              /\ getWeights(layers'[1]) = layerCall'.weights
              /\ getWeights(layers'[1]) # getWeights(layers[1])
              /\ \A h \in 1..Len(heap) : heap'[h] = heap[h] ]_vars

\* a second updateWeights call with rate 1/2 has changed both weights of the
\* matrix the layer was given by setWeights
C23_Witness ==
    /\ layerCall.n = 2 /\ layerCall.op = "updateWeights"
    /\ layerCall.lr = Frac(1, 2) /\ layerCall.dW = << <<Num(2)>>, <<Num(-1)>> >>
    /\ getWeights(layers[1]) = 2
    /\ heap[2] = << <<Num(0)>>, <<Frac(3, 2)>> >>

\* ---------------------------------------------------------------------------
\* C24: the weight gradient applied for a batch is the product of the
\* transposed layer input and the combined gradient divided by the number of
\* examples in that batch, also for a last batch of fewer than batchSize
\* examples: every batch step leaves the weights that the division by the
\* number of rows of the batch gives.
\* ---------------------------------------------------------------------------
C24_MeanOverBatch ==
    [][ updates' = updates + 1 =>
          heap' = trainBatch(heap, layers, BatchRows(xTrain), BatchRows(yTrain), lr,
                             [opt EXCEPT !.batchSize = Len(BatchRows(xTrain))]).heap ]_vars

RECURSIVE BackwardFrozen(_, _, _, _, _, _, _, _, _)
BackwardFrozen(hp0, hp, lys, cl, cd, rate, batchSize, k, dW) ==
    IF k = Len(lys) THEN hp
    ELSE BackwardFrozen(hp0,
             Updated(hp, getWeights(lys[Visited(lys, k)]), cl[Visited(lys, k)],
                     multiplyMatrix(dW, cd[Visited(lys, k)]), rate, batchSize),
             lys, cl, cd, rate, batchSize, k + 1,
             NextGrad(hp0, getWeights(lys[Visited(lys, k)]),
                      multiplyMatrix(dW, cd[Visited(lys, k)])))

FrozenResult(cl) ==
    BackwardFrozen(heap, heap, layers, cl.layers, cl.derivatives, lr, opt.batchSize, 0,
                   cl.derivatives[Len(cl.derivatives)])

C26_GradientsFromForwardWeights ==
    [][ updates' = updates + 1 =>
          heap' = FrozenResult(computeLayers(heap, layers, BatchRows(xTrain),
                                             BatchRows(yTrain))) ]_vars

\* ---------------------------------------------------------------------------
\* C27: when train aborts on a NaN batch loss, the weight update of that
\* batch has been applied to every layer: the step that ends the run with the
\* NaN error leaves the weights _updateWeights has computed for the batch,
\* updateWeights having been called on every layer, and no later step
\* changes them back.
\* ---------------------------------------------------------------------------
C27_NaNAfterUpdate ==
    [][ /\ (outcome' = "nanAbort" /\ outcome # "nanAbort") =>
              /\ heap' = BatchResult.heap
              /\ isNaN(BatchResult.batchLoss)
              /\ updates' = updates + 1
              /\ \A l \in 1..Len(layers) :
                    \E p \in 1..Len(passes') : passes'[p] = <<"updateWeights", l>>
        /\ outcome = "nanAbort" => (heap' = heap /\ layers' = layers) ]_vars

\* a run has ended on a NaN batch loss after an earlier batch, and the
\* offending batch has turned the weights into NaN
C27_Witness ==
    /\ outcome = "nanAbort" /\ promise = "rejected"
    /\ updates = 2
    /\ heap[layers[1].W] = << <<NaN>>, <<NaN>> >>

\* ---------------------------------------------------------------------------
\* C28: whenever early stopping triggers, weightHistory is not empty and the
\* index used for the restore, the position of the smallest entry of
\* validationLosses, is an index into weightHistory: the restore never reads
\* a missing snapshot.
\* ---------------------------------------------------------------------------
C28_RestoreIndexValid ==
    [][ (pc = "loop" /\ pc' = "done" /\ outcome' \in {"earlyStopped", "typeError"}) =>
          /\ Len(weightHistory') > 0
          /\ argmin(validationLosses') < Len(weightHistory')
          /\ outcome' = "earlyStopped" ]_vars

\* ---------------------------------------------------------------------------
\* C29: train, getLoss and predict leave the caller's matrices as they are:
\* once train is called, xTrain, yTrain, xValidation and yValidation keep
\* their rows, row lengths and values in every step, and the argument of
\* predict and of getLoss is after the call one of the matrices given, its
\* rows of the width of the model.
\* ---------------------------------------------------------------------------
C29_CallerMatricesKept ==
    [][ /\ pc # "idle" =>
              <<xTrain', yTrain', xValidation', yValidation'>>
                 = <<xTrain, yTrain, xValidation, yValidation>>
        /\ evalX' # evalX => evalX' \in ModelInputs(inputDim)
        /\ evalY' # evalY => evalY' \in ModelTargets(Len(evalX')) \cup {<<>>} ]_vars

\* a run on two rows with validation data has trained two epochs, and
\* predict has been called on two rows afterwards
C29_Witness ==
    /\ promise = "resolved" /\ outcome = "maxEpochs"
    /\ Len(xTrain) = 2 /\ Len(validationLosses) = 2 /\ updates = 4
    /\ Len(evalX) = 2 /\ thrown = "none" /\ Len(yPred) > 0

\* ---------------------------------------------------------------------------
\* C30: the histories of a run stay consistent.  trainLosses gains one entry,
\* at the end of an epoch and nowhere else, so that it has one entry per
\* epoch trained to its end; a registered onEpochEnd has been called exactly
\* once for each of these epochs and for no other, after the onBatchEnd
\* calls of that epoch, of which there is one per batch; and with validation
\* data validationLosses has as many entries as trainLosses at every epoch
\* boundary and at the end at maxEpochs, and one more inside an epoch and
\* after the evaluation that stopped the run.
\* ---------------------------------------------------------------------------
CallsOf(name, e) == { p \in 1..Len(calls) : calls[p][1] = name /\ calls[p][2] = e }

EpochCallsConsistent(e) ==
    /\ opt.callbacks.onEpochEnd # "absent" => Cardinality(CallsOf("onEpochEnd", e)) = 1
    /\ opt.callbacks.onBatchEnd # "absent" =>
          /\ Cardinality(CallsOf("onBatchEnd", e))
                = CeilDiv(Len(xTrain), opt.batchSize)
          /\ \A p \in CallsOf("onBatchEnd", e), q \in CallsOf("onEpochEnd", e) : p < q

HistoriesConsistent ==
    pc # "idle" =>
        /\ Len(trainLosses) = IF pc \in {"loop", "yield"} \/ outcome = "maxEpochs"
                              THEN state.epoch ELSE state.epoch - 1
        /\ pc = "loop" => Len(trainLosses) = i
        /\ \A e \in 0..(Len(trainLosses) - 1) : EpochCallsConsistent(e)
        /\ \A p \in 1..Len(calls) :
              calls[p][1] = "onEpochEnd" => calls[p][2] < Len(trainLosses)
        /\ IF xValidation = JSNull THEN validationLosses = <<>>
           ELSE IF pc \in {"loop", "yield"} \/ outcome = "maxEpochs"
                THEN Len(validationLosses) = Len(trainLosses)
                ELSE Len(validationLosses) = Len(trainLosses) + 1

C30_Histories ==
    [][ /\ HistoriesConsistent'
        /\ trainLosses' # trainLosses =>
              /\ pc = "batch" /\ j = CeilDiv(Len(xTrain), opt.batchSize) /\ pc' = "yield"
              /\ Len(trainLosses') = Len(trainLosses) + 1 ]_vars

\* a run with validation data has been stopped early by the evaluation of
\* its third epoch, after two epochs of two batches with their callbacks
C30_Witness ==
    /\ outcome = "earlyStopped"
    /\ Len(trainLosses) = 2 /\ Len(validationLosses) = 3
    /\ Len(calls) = 6 /\ calls[3][1] = "onEpochEnd" /\ calls[6][1] = "onEpochEnd"

=============================================================================
